---- MODULE Spec2Model ----
(***************************************************************************)
(* Solar-system data pipeline: file caches (NEO client, web-app Horizons   *)
(* service, web-app response cache), the web API route handlers, the       *)
(* retrying HTTP client, the batch-extraction script and the web-readiness *)
(* deduplication.  Strings whose structure matters (paths, cache keys,     *)
(* dedup identifiers) are sequences of one-character / one-token strings.  *)
(* Times are seconds.                                                      *)
(***************************************************************************)
EXTENDS Integers, Sequences, FiniteSets, TLC

VARIABLES
    now,            \* wall clock, seconds
    ticks,          \* number of clock advances so far
    neoCache,       \* NEO client cache directory: key -> file
    hzCache,        \* HorizonsService cache directory: key -> file
    webCache,       \* SimpleCache directory: key -> file
    lastRead,       \* the most recent cache read and what it saw
    served,         \* number of web requests handled so far
    resp,           \* the response to the most recent web request
    last200,        \* per request identity: the last status-200 response a handler produced
    call,           \* the BaseAPIClient / NEOClient call in progress
    httpPc,         \* where that call's retrying request executor is
    httpLog,        \* how each HTTP attempt of the call ended
    httpResult,     \* what _make_request gave its caller
    slept,          \* seconds the retry policy has waited during the call
    feedResult,     \* what get_feed gave its caller
    spkidCache,     \* HorizonsService._spkid_cache: lowercased names already looked up
    hzResult,       \* what the last get_orbital_data call returned
    hzCalls,        \* number of get_orbital_data calls made
    batchPc,        \* where the batch-extraction script is
    results,        \* its per-source results dictionary
    summaryWritten, \* whether batch_extraction_summary.json was written
    exitCode,       \* the script's exit status (-1 while running)
    rawSources,     \* the raw tables handed to _unify_and_deduplicate
    unifyPc,        \* "ready", "done", or "raised" when the run propagated an exception
    unified,        \* the unified object list the run produced
    enrichments,    \* the in-place enrichments of the run: record, list before and after
    duplicatesRemoved, \* processing_metadata['duplicates_removed']
    listing,        \* what the last GET /objects request was and what it returned
    detail,         \* get_object_detail: the last request and its response
    cleaned,        \* json_utils: the last value cleaned and the result
    km,             \* _simple_kmeans: the run in progress
    validated,      \* validate_dataframe: the last table validated and the result
    classified,     \* classify_cluster_type: the last cluster statistics and their label
    rangeCall,      \* get_neos_for_date_range: the last call and its outcome
    extraction,     \* extract_all_data: the last run and what it returned
    clientRun,      \* a client's batch_download_all: the last run and what it left
    imageFetch,     \* _fetch_from_nasa_api: the call in progress
    scraper,        \* ScraperBase: the clock, last_request_time and the last two GETs
    enriched,       \* the last _enrich_with_analysis call: its tables and the flags it set
    rangeCache,     \* NEO cache directory: the file range_{start}_{end}.json of the range starting today
    neoCall,        \* the last cached NEO query: method, data_source and the dict returned
    race            \* concurrent SimpleCache calls on one key: the cache file and each call's position

cacheVars == <<neoCache, hzCache, webCache, lastRead>>
webVars == <<served, resp, last200>>
hzVars == <<spkidCache, hzResult, hzCalls>>
batchVars == <<batchPc, results, summaryWritten, exitCode>>
unifyVars == <<rawSources, unifyPc, unified, enrichments, duplicatesRemoved>>
httpVars == <<call, httpPc, httpLog, httpResult, slept, feedResult>>
clockVars == <<now, ticks>>

(***************************************************************************)
(* Bounds                                                                  *)
(***************************************************************************)
MaxTicks == 2
MaxRequests == 2
MaxPathLen == 3

\* payloads a data source can hold at different moments
Payloads == {"p1", "p2"}

(***************************************************************************)
(* String helpers                                                          *)
(***************************************************************************)
Concat(s, t) == s \o t

StartsWith(s, p) ==
    /\ Len(p) <= Len(s)
    /\ SubSeq(s, 1, Len(p)) = p

\* Python's `p in s` for strings
Contains(s, p) ==
    \E i \in 1..(Len(s) - Len(p) + 1) : SubSeq(s, i, i + Len(p) - 1) = p

LowerChar(c) ==
    CASE c = "C" -> "c"
      [] c = "P" -> "p"
      [] c = "E" -> "e"
      [] c = "X" -> "x"
      [] c = "None" -> "none"
      [] OTHER -> c

Lower(s) == [i \in 1..Len(s) |-> LowerChar(s[i])]

(***************************************************************************)
(* Clock                                                                   *)
(***************************************************************************)
NEO_CACHE_DURATION_HOURS == 6
PHA_MAX_AGE_HOURS == 12
HZ_CACHE_TTL == 86400
DEFAULT_TIMEOUT == 3600

HoursToSeconds(h) == h * 3600

\* Steps by which the clock is observed to advance between operations
Deltas == {1, 2,
           DEFAULT_TIMEOUT - 1,
           HoursToSeconds(NEO_CACHE_DURATION_HOURS) - 1,
           HoursToSeconds(PHA_MAX_AGE_HOURS) - 1,
           HZ_CACHE_TTL - 1}

Advance(d) ==
    /\ ticks < MaxTicks
    /\ now' = now + d
    /\ ticks' = ticks + 1

(***************************************************************************)
(* Cache files and read results                                            *)
(***************************************************************************)
\* JSON bodies: the keys of the envelope and the payload version
NoBody == [success |-> "absent", error |-> FALSE, data |-> "none"]
\* jsonify({'success': True, 'data': ...})
SuccessBody(v) == [success |-> "true", error |-> FALSE, data |-> v]
\* jsonify({'success': False, 'error': ...})
ErrorEnvelope == [success |-> "false", error |-> TRUE, data |-> "none"]
\* jsonify({'error': ...})
BareError == [success |-> "absent", error |-> TRUE, data |-> "none"]
\* send_file(...): the file's bytes
FileBody(v) == [success |-> "absent", error |-> FALSE, data |-> v]

NoNeoFile == [exists |-> FALSE, cached_at |-> 0, data |-> NoBody]
NoHzFile == [exists |-> FALSE, mtime |-> 0, data |-> NoBody]

NoWebFile == [exists |-> FALSE, value |-> NoBody, created_at |-> 0, expires_at |-> 0]

None == [hit |-> FALSE, value |-> NoBody]
Some(v) == [hit |-> TRUE, value |-> v]

(***************************************************************************)
(* NEO client cache                                                        *)
(***************************************************************************)
NeoKeys == {"current_week", "potentially_hazardous_current"}

\* the max_age_hours argument each caller passes for its key (0 = None)
NeoMaxAgeArg(key) ==
    IF key = "potentially_hazardous_current" THEN PHA_MAX_AGE_HOURS ELSE 0

\* timedelta(hours=max_age_hours or self.cache_duration.total_seconds()/3600)
NeoMaxAge(max_age_hours) ==
    HoursToSeconds(IF max_age_hours # 0 THEN max_age_hours
                   ELSE NEO_CACHE_DURATION_HOURS)

NeoExpired(file, max_age_hours, t) ==
    ~ (t - file.cached_at <= NeoMaxAge(max_age_hours))

\* NEOClient._get_from_cache: <<result, directory afterwards>>
NeoGetFromCache(cache, key, max_age_hours, t) ==
    IF ~ cache[key].exists THEN <<None, cache>>
    ELSE IF ~ NeoExpired(cache[key], max_age_hours, t)
         THEN <<Some(cache[key].data), cache>>
         ELSE <<None, [cache EXCEPT ![key] = NoNeoFile]>>

\* NEOClient._save_to_cache with a payload stamped cached_at = now
NeoSaveToCache(cache, key, data, t) ==
    [cache EXCEPT ![key] = [exists |-> TRUE, cached_at |-> t, data |-> data]]

(***************************************************************************)
(* HorizonsService cache                                                   *)
(***************************************************************************)
ObjectIds == {<<"1">>, <<"2">>}
ObjectNames == {<<"C">>, <<"c">>, <<"P">>}

\* HorizonsService._get_cache_key: f"{object_id}_{object_name}".lower()
\* (the md5 digest of the string is represented by the string itself)
HzCacheKey(object_id, object_name) ==
    Lower(Concat(Concat(object_id, <<"_">>), object_name))

\* str(None): the name of a catalogue row that has no 'name'
NoneName == <<"None">>

HzKeys == {HzCacheKey(i, n) : i \in ObjectIds, n \in ObjectNames \cup {NoneName}}

\* variant: the age compared in milliseconds
HzFresh_Milliseconds(file, t) == t - file.mtime < HZ_CACHE_TTL * 1000
HzFresh(file, t) == t - file.mtime < HZ_CACHE_TTL

\* HorizonsService._get_from_cache: <<result, directory afterwards>>
HzGetFromCache(cache, key, t) ==
    IF cache[key].exists /\ HzFresh(cache[key], t)
    THEN <<Some(cache[key].data), cache>>
    ELSE <<None, cache>>

\* HorizonsService._save_to_cache
HzSaveToCache(cache, key, data, t) ==
    [cache EXCEPT ![key] = [exists |-> TRUE, mtime |-> t, data |-> data]]

(***************************************************************************)
(* SimpleCache (web-app response cache)                                    *)
(***************************************************************************)
Endpoints == {"api.get_object_detail", "api.get_stats"}
\* query strings: the (key, value) pairs in the order they were sent
Queries == {<<>>, <<<<"a", "1">>>>, <<<<"a", "1">>, <<"a", "2">>>>}

\* MultiDict.items(): one pair per key, carrying the first value sent
FirstIndex(q, k) == CHOOSE i \in 1..Len(q) : q[i][1] = k /\ \A j \in 1..(i-1) : q[j][1] # k

ArgsItems(q) == {<<k, q[FirstIndex(q, k)][2]>> : k \in {q[i][1] : i \in 1..Len(q)}}

ItemLess(x, y) == \/ x[1] = "a" /\ y[1] # "a"
                  \/ x[1] = y[1] /\ x[2] = "1" /\ y[2] = "2"

\* sorted(items)
RECURSIVE SortItems(_)
SortItems(S) ==
    IF S = {} THEN <<>>
    ELSE LET m == CHOOSE x \in S : \A y \in S \ {x} : ItemLess(x, y)
         IN <<m>> \o SortItems(S \ {m})

\* variant: a key that ignores the query string
CacheKey_WithoutQuery(endpoint, kwargs, q) == <<endpoint, kwargs, <<>>>>
\* cached_response: ':'.join([request.endpoint, str(kwargs), str(sorted(request.args.items()))])
\* (the three parts are kept as a tuple; each part's repr is unambiguous)
CacheKey(endpoint, kwargs, q) == <<endpoint, kwargs, SortItems(ArgsItems(q))>>

KwargsOf(endpoint) ==
    IF endpoint = "api.get_object_detail" THEN {<<"object_id", i>> : i \in ObjectIds}
    ELSE {<<>>}

WebKeys == UNION {{CacheKey(e, kw, q) : kw \in KwargsOf(e), q \in Queries} : e \in Endpoints}

WebExpired(file, t) == t > file.expires_at

\* SimpleCache.get: <<result, directory afterwards>>
SimpleCacheGet(cache, key, t) ==
    IF ~ cache[key].exists THEN <<None, cache>>
    ELSE IF WebExpired(cache[key], t)
         THEN <<None, [cache EXCEPT ![key] = NoWebFile]>>
         ELSE <<Some(cache[key].value), cache>>

\* SimpleCache.set
SimpleCacheSet(cache, key, value, timeout, t) ==
    [cache EXCEPT ![key] = [exists |-> TRUE, value |-> value,
                            created_at |-> t, expires_at |-> t + timeout]]

\* SimpleCache.clear
SimpleCacheClear(cache) == [k \in DOMAIN cache |-> NoWebFile]

(***************************************************************************)
(* Cache operations as steps                                               *)
(***************************************************************************)
NoRead == [cache |-> "none", at |-> 0, written |-> 0, max_age |-> 0,
           had |-> FALSE, stored |-> NoBody, result |-> None, left |-> FALSE]

\* a read at time t of a file written at w, read with max-age m; `had`: the
\* file existed, `stored`: what it held, `left`: it still exists afterwards
ReadRecord(c, t, w, m, h, s, r, l) ==
    [cache |-> c, at |-> t, written |-> w, max_age |-> m,
     had |-> h, stored |-> s, result |-> r, left |-> l]

NeoSave(key, data) ==
    /\ neoCache' = NeoSaveToCache(neoCache, key, data, now)
    /\ lastRead' = NoRead
    /\ UNCHANGED <<hzCache, webCache>>

NeoGet(key) ==
    LET r == NeoGetFromCache(neoCache, key, NeoMaxAgeArg(key), now)
    IN /\ neoCache' = r[2]
       /\ lastRead' = ReadRecord("neo", now, neoCache[key].cached_at,
                                 NeoMaxAge(NeoMaxAgeArg(key)), neoCache[key].exists,
                                 neoCache[key].data, r[1], r[2][key].exists)
       /\ UNCHANGED <<hzCache, webCache>>

HzSave(key, data) ==
    /\ hzCache' = HzSaveToCache(hzCache, key, data, now)
    /\ lastRead' = NoRead
    /\ UNCHANGED <<neoCache, webCache>>

HzGet(key) ==
    LET r == HzGetFromCache(hzCache, key, now)
    IN /\ hzCache' = r[2]
       /\ lastRead' = ReadRecord("horizons", now, hzCache[key].mtime, HZ_CACHE_TTL,
                                 hzCache[key].exists, hzCache[key].data, r[1],
                                 r[2][key].exists)
       /\ UNCHANGED <<neoCache, webCache>>

WebSet(key, value) ==
    /\ webCache' = SimpleCacheSet(webCache, key, value, DEFAULT_TIMEOUT, now)
    /\ lastRead' = NoRead
    /\ UNCHANGED <<neoCache, hzCache>>

WebGet(key) ==
    LET r == SimpleCacheGet(webCache, key, now)
    IN /\ webCache' = r[2]
       /\ lastRead' = ReadRecord("web", now, webCache[key].created_at,
                                 webCache[key].expires_at - webCache[key].created_at,
                                 webCache[key].exists, webCache[key].value, r[1],
                                 r[2][key].exists)
       /\ UNCHANGED <<neoCache, hzCache>>

WebClear ==
    /\ webCache' = SimpleCacheClear(webCache)
    /\ lastRead' = NoRead
    /\ UNCHANGED <<neoCache, hzCache>>

\* the keys the cache-expiry scenario exercises
CacheScenarioHzKey == HzCacheKey(<<"1">>, <<"C">>)
CacheScenarioWebKey == CacheKey("api.get_stats", <<>>, <<>>)

(***************************************************************************)
(* Web API route handlers                                                  *)
(***************************************************************************)
\* What a view function returns: a Response (jsonify(...)) or a
\* (Response, status) tuple.  `raised` records that an exception reached the
\* handler's outer `except Exception` clause.
Returned(isTuple, status, body, raised) ==
    [isTuple |-> isTuple, status |-> status, body |-> body, raised |-> raised]

\* the step that raises in one request, if any
NoFailure == "none"
FailureOf(order) == {NoFailure} \cup {order[i] : i \in 1..Len(order)}

ObjectsSteps == <<"parse_page", "get_objects", "dataframe_to_json_safe", "jsonify">>

\* get_objects
GetObjectsHandler(fail, v) ==
    IF fail # NoFailure
    THEN Returned(TRUE, 500, ErrorEnvelope, TRUE)
    ELSE Returned(FALSE, 200, SuccessBody(v), FALSE)

DetailSteps == <<"get_object_by_id", "series_to_json_safe", "radius_fallback",
                 "get_orbital_data", "fetch_image", "jsonify">>
\* steps wrapped in their own try/except inside get_object_detail
DetailCaught == {"get_orbital_data", "fetch_image"}

\* get_object_detail
GetObjectDetailHandler(found, fail, v) ==
    IF fail = "get_object_by_id"
    THEN Returned(TRUE, 500, ErrorEnvelope, TRUE)
    ELSE IF ~ found
    THEN Returned(TRUE, 404, ErrorEnvelope, FALSE)
    ELSE IF fail # NoFailure /\ fail \notin DetailCaught
    THEN Returned(TRUE, 500, ErrorEnvelope, TRUE)
    ELSE Returned(FALSE, 200, SuccessBody(v), FALSE)

StatsSteps == <<"open", "json_load", "jsonify">>

\* get_stats
GetStatsHandler(fail, v) ==
    IF fail # NoFailure
    THEN Returned(TRUE, 500, ErrorEnvelope, TRUE)
    ELSE Returned(FALSE, 200, SuccessBody(v), FALSE)

AnomaliesSteps == <<"get_anomalies", "enrich", "paginate", "jsonify">>

\* get_anomalies
GetAnomaliesHandler(fail, v) ==
    IF fail # NoFailure
    THEN Returned(TRUE, 500, ErrorEnvelope, TRUE)
    ELSE Returned(FALSE, 200, SuccessBody(v), FALSE)

ClusteringSteps == <<"get_clustering_data", "cluster_stats", "scatter_data", "jsonify">>

\* get_clustering_data
GetClusteringHandler(empty, fail, v) ==
    IF fail = "get_clustering_data"
    THEN Returned(TRUE, 500, ErrorEnvelope, TRUE)
    ELSE IF empty
    THEN Returned(TRUE, 404, ErrorEnvelope, FALSE)
    ELSE IF fail # NoFailure
    THEN Returned(TRUE, 500, ErrorEnvelope, TRUE)
    ELSE Returned(FALSE, 200, SuccessBody(v), FALSE)

PathChars == {".", "/", "a"}
ImagePaths == UNION {[1..n -> PathChars] : n \in 1..MaxPathLen}

\* what the filesystem does with full_path
FsOutcomes == {"missing", "directory", "file", "exists_raises", "send_file_raises"}

\* variant: only a leading '..' or '/' is rejected
InvalidPath_PrefixOnly(image_path) ==
    StartsWith(image_path, <<".", ".">>) \/ StartsWith(image_path, <<"/">>)
\* '..' in image_path or image_path.startswith('/')
InvalidPath(image_path) ==
    \/ Contains(image_path, <<".", ".">>)
    \/ StartsWith(image_path, <<"/">>)

\* serve_local_image: the response and whether full_path.exists() was reached
ServeLocalImage(image_path, fs, v) ==
    IF InvalidPath(image_path)
    THEN [ret |-> Returned(TRUE, 400, BareError, FALSE), fsTouched |-> FALSE]
    ELSE IF fs = "exists_raises"
    THEN [ret |-> Returned(TRUE, 500, BareError, TRUE), fsTouched |-> TRUE]
    ELSE IF fs = "file"
    THEN [ret |-> Returned(FALSE, 200, FileBody(v), FALSE), fsTouched |-> TRUE]
    ELSE IF fs = "send_file_raises"
    THEN [ret |-> Returned(TRUE, 500, BareError, TRUE), fsTouched |-> TRUE]
    ELSE [ret |-> Returned(TRUE, 404, BareError, FALSE), fsTouched |-> TRUE]

(***************************************************************************)
(* cached_response                                                         *)
(***************************************************************************)
NoKey == <<>>
NoPath == <<>>

\* what a request asks for: route, route arguments, set of query-string items
ReqId(endpoint, kwargs, q) == <<endpoint, kwargs, ArgsItems(q)>>
ReqIds == UNION {{ReqId(e, kw, q) : kw \in KwargsOf(e), q \in Queries} : e \in Endpoints}

Response(route, req, status, body, cacheStatus, invoked, raised, path, fsTouched) ==
    [route |-> route, req |-> req, status |-> status, body |-> body,
     cacheStatus |-> cacheStatus, invoked |-> invoked, raised |-> raised,
     path |-> path, fsTouched |-> fsTouched, at |-> now]

NoResponse == Response("none", NoKey, 0, NoBody, "none", FALSE, FALSE, NoPath, FALSE)

No200 == [has |-> FALSE, body |-> NoBody, at |-> 0]

\* hasattr(result, 'json') and result.status_code == 200
Cacheable(ret) == ~ ret.isTuple /\ ret.status = 200

\* decorated_function: `ret` is what the wrapped handler returns if it is called
CachedResponse(endpoint, kwargs, q, ret, timeout) ==
    LET key == CacheKey(endpoint, kwargs, q)
        req == ReqId(endpoint, kwargs, q)
        got == SimpleCacheGet(webCache, key, now)
    IN /\ served < MaxRequests
       /\ served' = served + 1
       /\ IF got[1].hit
          THEN /\ resp' = Response(endpoint, req, 200, got[1].value, "HIT",
                                   FALSE, FALSE, NoPath, FALSE)
               /\ webCache' = got[2]
               /\ UNCHANGED last200
          ELSE /\ resp' = Response(endpoint, req, ret.status, ret.body,
                                   IF Cacheable(ret) THEN "MISS" ELSE "none",
                                   TRUE, ret.raised, NoPath, FALSE)
               /\ webCache' = IF Cacheable(ret)
                              THEN SimpleCacheSet(got[2], key, ret.body, timeout, now)
                              ELSE got[2]
               /\ last200' = IF ret.status = 200
                             THEN [last200 EXCEPT ![req] = [has |-> TRUE, body |-> ret.body, at |-> now]]
                             ELSE last200

\* a route without the caching decorator
Uncached(route, ret, path, fsTouched) ==
    /\ served < MaxRequests
    /\ served' = served + 1
    /\ resp' = Response(route, NoKey, ret.status, ret.body, "none", TRUE,
                        ret.raised, path, fsTouched)
    /\ UNCHANGED <<webCache, last200>>

ReqObjects ==
    \E ret \in {GetObjectsHandler(fail, v) :
                    fail \in FailureOf(ObjectsSteps), v \in Payloads} :
        Uncached("api.get_objects", ret, NoPath, FALSE)

ReqObjectDetail ==
    \E i \in ObjectIds, q \in Queries,
       ret \in {GetObjectDetailHandler(found, fail, v) :
                    found \in BOOLEAN, fail \in FailureOf(DetailSteps), v \in Payloads} :
        CachedResponse("api.get_object_detail", <<"object_id", i>>, q, ret, DEFAULT_TIMEOUT)

ReqStats ==
    \E q \in Queries,
       ret \in {GetStatsHandler(fail, v) :
                    fail \in FailureOf(StatsSteps), v \in Payloads} :
        CachedResponse("api.get_stats", <<>>, q, ret, DEFAULT_TIMEOUT)

ReqAnomalies ==
    \E ret \in {GetAnomaliesHandler(fail, v) :
                    fail \in FailureOf(AnomaliesSteps), v \in Payloads} :
        Uncached("api.get_anomalies", ret, NoPath, FALSE)

ReqClustering ==
    \E ret \in {GetClusteringHandler(empty, fail, v) :
                    empty \in BOOLEAN, fail \in FailureOf(ClusteringSteps), v \in Payloads} :
        Uncached("api.get_clustering_data", ret, NoPath, FALSE)

ReqLocalImage ==
    \E p \in ImagePaths, fs \in FsOutcomes, v \in Payloads :
        LET r == ServeLocalImage(p, fs, v)
        IN Uncached("api_images.serve_local_image", r.ret, p, r.fsTouched)

ClearCache ==
    /\ webCache' = SimpleCacheClear(webCache)
    /\ UNCHANGED <<served, resp, last200>>

WebDeltas == {1, DEFAULT_TIMEOUT}

(***************************************************************************)
(* BaseAPIClient._make_request under the tenacity retry policy             *)
(***************************************************************************)
STOP_AFTER_ATTEMPT == 3
WAIT_MULTIPLIER == 1
WAIT_MIN == 2
WAIT_MAX == 10

\* how one session.request(...) + raise_for_status() can end
AttemptOutcomes == {"ok", "HTTPError", "Timeout", "ConnectionError",
                    "RequestException", "OtherException"}

\* network-level failures: no HTTP status was received
NetworkFailures == {"Timeout", "ConnectionError", "RequestException"}

\* requests.exceptions: HTTPError, Timeout and ConnectionError all derive
\* from RequestException
IsInstanceOfRequestException(exc) ==
    exc \in {"RequestException", "HTTPError", "Timeout", "ConnectionError"}

\* retry=retry_if_exception_type((RequestException, Timeout, ConnectionError))
RetryPredicate(exc) == IsInstanceOfRequestException(exc)

\* variant: one attempt more
StopAfterAttempt_Four(attempt_number) == attempt_number >= STOP_AFTER_ATTEMPT + 1
\* stop=stop_after_attempt(3)
StopAfterAttempt(attempt_number) == attempt_number >= STOP_AFTER_ATTEMPT

RECURSIVE Pow2(_)
Pow2(n) == IF n = 0 THEN 1 ELSE 2 * Pow2(n - 1)

\* wait=wait_exponential(multiplier=1, min=2, max=10)
WaitExponential(attempt_number) ==
    LET exp == WAIT_MULTIPLIER * Pow2(attempt_number - 1)
        capped == IF exp < WAIT_MAX THEN exp ELSE WAIT_MAX
    IN IF capped > WAIT_MIN THEN capped ELSE WAIT_MIN

NoResult == [kind |-> "none", exc |-> "none", cause |-> "none"]
ResponseResult == [kind |-> "response", exc |-> "none", cause |-> "none"]
Raised(exc, cause) == [kind |-> "raised", exc |-> exc, cause |-> cause]

NoCall == [kind |-> "none", start |-> <<0, 0>>, end |-> <<0, 0>>]

\* BaseAPIClient.get / BaseAPIClient.post
StartRequest(method) ==
    /\ httpPc = "idle"
    /\ call' = [kind |-> method, start |-> <<0, 0>>, end |-> <<0, 0>>]
    /\ httpPc' = "attempt"
    /\ UNCHANGED <<httpLog, httpResult, slept, feedResult>>

\* what get_feed does with the outcome of self.get(...)
FeedOutcome(result, parses) ==
    IF result.kind = "raised" THEN result
    ELSE IF parses THEN [kind |-> "dataframe", exc |-> "none", cause |-> "none"]
    ELSE Raised("OtherException", "none")

\* one pass through the body of _make_request and the retry decision after it
Attempt(outcome, parses) ==
    /\ httpPc = "attempt"
    /\ httpLog' = Append(httpLog, outcome)
    /\ LET attempt_number == Len(httpLog) + 1
           finished ==
               \/ outcome = "ok"
               \/ ~ RetryPredicate(outcome)
               \/ StopAfterAttempt(attempt_number)
           result ==
               IF outcome = "ok" THEN ResponseResult
               ELSE IF ~ RetryPredicate(outcome) THEN Raised(outcome, outcome)
               ELSE Raised("RetryError", outcome)
       IN IF finished
          THEN /\ httpPc' = "done"
               /\ httpResult' = result
               /\ feedResult' = IF call.kind = "feed" THEN FeedOutcome(result, parses)
                                ELSE feedResult
          ELSE /\ httpPc' = "wait"
               /\ UNCHANGED <<httpResult, feedResult>>
    /\ UNCHANGED <<call, slept>>

\* the sleep between two attempts
Backoff ==
    /\ httpPc = "wait"
    /\ slept' = slept + WaitExponential(Len(httpLog))
    /\ httpPc' = "attempt"
    /\ UNCHANGED <<call, httpLog, httpResult, feedResult>>

(***************************************************************************)
(* NEOClient.get_feed                                                      *)
(***************************************************************************)
FEED_MAX_DAYS == 7

\* dates are <<month, day>> of one non-leap year; <<0, 0>> is end_date=None
FeedDates == {1, 2} \X {1, 8, 9, 31}
NoDate == <<0, 0>>

DaysInMonth(m) == IF m = 2 THEN 28 ELSE 31

\* datetime.strptime(s, '%Y-%m-%d') accepts only dates of the calendar
ValidDate(d) == d[2] >= 1 /\ d[2] <= DaysInMonth(d[1])

RECURSIVE DaysBefore(_)
DaysBefore(m) == IF m <= 1 THEN 0 ELSE DaysInMonth(m - 1) + DaysBefore(m - 1)

\* day of the year of a parsed date
Ordinal(d) == DaysBefore(d[1]) + d[2]

\* variant: an eight-day span is let through
SpanTooLong_Inclusive(startOrd, endOrd) == endOrd - startOrd > FEED_MAX_DAYS + 1
\* (end - start).days > 7
SpanTooLong(startOrd, endOrd) == endOrd - startOrd > FEED_MAX_DAYS

\* get_feed up to the point where it calls self.get(...)
GetFeed(start_date, end_date) ==
    /\ httpPc = "idle"
    /\ call' = [kind |-> "feed", start |-> start_date, end |-> end_date]
    /\ IF ~ ValidDate(start_date) \/ (end_date # NoDate /\ ~ ValidDate(end_date))
       THEN /\ feedResult' = Raised("ValueError", "none")
            /\ httpPc' = "done"
       ELSE LET startOrd == Ordinal(start_date)
                endOrd == IF end_date # NoDate THEN Ordinal(end_date)
                          ELSE startOrd + FEED_MAX_DAYS
            IN IF SpanTooLong(startOrd, endOrd)
               THEN /\ feedResult' = Raised("ValueError", "none")
                    /\ httpPc' = "done"
               ELSE /\ feedResult' = feedResult
                    /\ httpPc' = "attempt"
    /\ UNCHANGED <<httpLog, httpResult, slept>>

(***************************************************************************)
(* HorizonsService.get_orbital_data                                        *)
(***************************************************************************)
MaxHzCalls == 2

\* how the SPK-ID lookup request can end
LookupOutcomes == {"found", "non200", "no_count", "timeout", "exception"}
\* how the object-data request can end
DataOutcomes == {"ok", "non200", "no_result", "timeout", "exception"}

\* the dict of _get_basic_orbital_data, as stored in the cache file
OrbitalData(v) == [success |-> "absent", error |-> FALSE, data |-> v]

NoHzResult == [kind |-> "none", source |-> "none", fromCache |-> FALSE,
               lookup |-> "none", data |-> "none", name |-> <<>>]
HzReturn(kind, source, fromCache, lookup, data, name) ==
    [kind |-> kind, source |-> source, fromCache |-> fromCache,
     lookup |-> lookup, data |-> data, name |-> name]

\* HorizonsService._get_spkid: "raises" (None has no lower()), or
\* <<found, requested, memory cache afterwards>>
GetSpkid(memo, object_name, lookup) ==
    IF object_name = NoneName THEN [raises |-> TRUE, found |-> FALSE, lookup |-> "none", memo |-> memo]
    ELSE IF Lower(object_name) \in memo
    THEN [raises |-> FALSE, found |-> TRUE, lookup |-> "memo", memo |-> memo]
    ELSE IF lookup = "found"
    THEN [raises |-> FALSE, found |-> TRUE, lookup |-> lookup,
          memo |-> memo \cup {Lower(object_name)}]
    ELSE [raises |-> FALSE, found |-> FALSE, lookup |-> lookup, memo |-> memo]

\* HorizonsService._get_basic_orbital_data: a dict, or None
GetBasicOrbitalData(data, v) == IF data = "ok" THEN Some(OrbitalData(v)) ELSE None

GetOrbitalData(object_id, object_name, lookup, data, v, saves) ==
    /\ hzCalls < MaxHzCalls
    /\ hzCalls' = hzCalls + 1
    /\ LET cache_key == HzCacheKey(object_id, object_name)
           cached == HzGetFromCache(hzCache, cache_key, now)
           spkid == GetSpkid(spkidCache, object_name, lookup)
           orbital == GetBasicOrbitalData(data, v)
       IN IF cached[1] # None
          THEN /\ hzResult' = HzReturn("dict", "horizons", TRUE, "none", "none", object_name)
               /\ UNCHANGED <<hzCache, spkidCache>>
          ELSE IF spkid.raises
          THEN /\ hzResult' = HzReturn("dict", "local_data", FALSE, "raised", "none", object_name)
               /\ UNCHANGED <<hzCache, spkidCache>>
          ELSE IF ~ spkid.found
          THEN /\ hzResult' = HzReturn("dict", "local_data", FALSE, spkid.lookup, "none", object_name)
               /\ spkidCache' = spkid.memo
               /\ UNCHANGED hzCache
          ELSE IF orbital # None
          THEN /\ hzResult' = HzReturn("dict", "horizons", FALSE, spkid.lookup, data, object_name)
               /\ spkidCache' = spkid.memo
               /\ hzCache' = IF saves
                             THEN HzSaveToCache(hzCache, cache_key, orbital.value, now)
                             ELSE hzCache
          ELSE /\ hzResult' = HzReturn("None", "none", FALSE, spkid.lookup, data, object_name)
               /\ spkidCache' = spkid.memo
               /\ UNCHANGED hzCache

HzDeltas == {1, HZ_CACHE_TTL}

(***************************************************************************)
(* SBDBClient.batch_download_all, SolarSystemOpenDataClient.batch_download_all *)
(***************************************************************************)
\* the category queries made inside the outer try block, in program order
SbdbCategories == <<"neos", "mba", "trojans", "comets_jfc", "comets_htc", "phas">>
OpendataCategories == <<"all_bodies", "planets", "moons">>
\* a category query returns rows, returns an empty table, or raises
QueryOutcomes == {"rows", "empty", "raises"}

\* the queries of one try block: each table with rows is written to its CSV,
\* until a query raises
DownloadCategories(categories, outcome) ==
    LET f[i \in 0..Len(categories)] ==
            IF i = 0 THEN [alive |-> TRUE, csv |-> {}]
            ELSE IF ~ f[i - 1].alive \/ outcome[categories[i]] = "raises"
            THEN [alive |-> FALSE, csv |-> f[i - 1].csv]
            ELSE IF outcome[categories[i]] = "rows"
            THEN [alive |-> TRUE, csv |-> f[i - 1].csv \cup {categories[i]}]
            ELSE f[i - 1]
    IN f[Len(categories)]

\* variant: the Centaur query outside its own try block
TryCentaurs_Unguarded(outcome) ==
    [csv |-> IF outcome = "rows" THEN {"centaurs"} ELSE {}, propagates |-> outcome = "raises"]
\* try: centaurs = self.get_asteroids(asteroid_class='CEN', ...) ... except: print(...)
TryCentaurs(outcome) ==
    [csv |-> IF outcome = "rows" THEN {"centaurs"} ELSE {}, propagates |-> FALSE]

ClientRun(source, ended, csv, metadata) ==
    [source |-> source, ended |-> ended, csv |-> csv, metadata |-> metadata]

\* SBDBClient.batch_download_all: "raised" when os.makedirs raises, "aborted"
\* when the outer except clause is reached, "completed" otherwise
SbdbBatchDownloadAll(makedirs, outcome, centaurs, metadataWrite) ==
    LET six == DownloadCategories(SbdbCategories, outcome)
        cen == TryCentaurs(centaurs)
    IN IF makedirs = "raises" THEN ClientRun("sbdb", "raised", {}, FALSE)
       ELSE IF ~ six.alive \/ cen.propagates
       THEN ClientRun("sbdb", "aborted", six.csv, FALSE)
       ELSE IF metadataWrite = "raises"
       THEN ClientRun("sbdb", "aborted", six.csv \cup cen.csv, FALSE)
       ELSE ClientRun("sbdb", "completed", six.csv \cup cen.csv, TRUE)

\* SolarSystemOpenDataClient.batch_download_all
OpendataBatchDownloadAll(makedirs, outcome, metadataWrite) ==
    LET three == DownloadCategories(OpendataCategories, outcome)
    IN IF makedirs = "raises" THEN ClientRun("opendata", "raised", {}, FALSE)
       ELSE IF ~ three.alive \/ metadataWrite = "raises"
       THEN ClientRun("opendata", "aborted", three.csv, FALSE)
       ELSE ClientRun("opendata", "completed", three.csv, TRUE)

NoClientRun == [run |-> ClientRun("none", "none", {}, FALSE), makedirs |-> "ok",
                outcome |-> <<>>, centaurs |-> "empty", metadataWrite |-> "ok"]

SbdbDownload ==
    /\ clientRun.run.source = "none"
    /\ \E makedirs \in {"ok", "raises"},
          queried \in [1..Len(SbdbCategories) -> QueryOutcomes],
          centaurs \in QueryOutcomes, metadataWrite \in {"ok", "raises"} :
          LET outcome == [c \in {SbdbCategories[i] : i \in DOMAIN SbdbCategories} |->
                            queried[CHOOSE i \in DOMAIN SbdbCategories : SbdbCategories[i] = c]]
          IN clientRun' = [run |-> SbdbBatchDownloadAll(makedirs, outcome, centaurs, metadataWrite),
                           makedirs |-> makedirs, outcome |-> queried,
                           centaurs |-> centaurs, metadataWrite |-> metadataWrite]

OpendataDownload ==
    /\ clientRun.run.source = "none"
    /\ \E makedirs \in {"ok", "raises"},
          queried \in [1..Len(OpendataCategories) -> QueryOutcomes],
          metadataWrite \in {"ok", "raises"} :
          LET outcome == [c \in {OpendataCategories[i] : i \in DOMAIN OpendataCategories} |->
                            queried[CHOOSE i \in DOMAIN OpendataCategories : OpendataCategories[i] = c]]
          IN clientRun' = [run |-> OpendataBatchDownloadAll(makedirs, outcome, metadataWrite),
                           makedirs |-> makedirs, outcome |-> queried,
                           centaurs |-> "empty", metadataWrite |-> metadataWrite]

(***************************************************************************)
(* batch_download_all.py: extract_all_batch_data and __main__              *)
(***************************************************************************)
MaxFiles == 3

OPENDATA_CACHE_DAYS == 7
SBDB_CACHE_DAYS == 15

Sources == {"opendata", "sbdb"}
CacheDuration(source) == IF source = "opendata" THEN OPENDATA_CACHE_DAYS ELSE SBDB_CACHE_DAYS

\* what check_cache_status can find: no metadata file, an unreadable one,
\* or one that is days_old days old
MetadataStates == {"absent", "unreadable", "present"}
DaysOld == {0, OPENDATA_CACHE_DAYS, OPENDATA_CACHE_DAYS + 1,
            SBDB_CACHE_DAYS, SBDB_CACHE_DAYS + 1}
RecordCounts == {0, 366}

\* check_cache_status: needs_update stays True unless the metadata is read
NeedsUpdate(source, metadata, days_old) ==
    IF metadata = "present" THEN days_old > CacheDuration(source) ELSE TRUE

\* a result as stored in the results dictionary; `download` is not stored by
\* the program: it records how the client's batch_download_all ended
\* ("skipped" when it was not called on a fresh cache)
NoSourceResult == [status |-> "none", action |-> "none", files |-> 0, records |-> 0,
                   download |-> "none"]
SourceResult(status, action, files, records, download) ==
    [status |-> status, action |-> action, files |-> files, records |-> records,
     download |-> download]

\* how the client's batch_download_all can end for the caller
DownloadEndings(source) ==
    IF source = "opendata"
    THEN {OpendataBatchDownloadAll(m, o, w).ended :
            m \in {"ok", "raises"},
            o \in [{OpendataCategories[i] : i \in DOMAIN OpendataCategories} -> QueryOutcomes],
            w \in {"ok", "raises"}}
    ELSE {SbdbBatchDownloadAll(m, o, c, w).ended :
            m \in {"ok", "raises"},
            o \in [{SbdbCategories[i] : i \in DOMAIN SbdbCategories} -> QueryOutcomes],
            c \in QueryOutcomes, w \in {"ok", "raises"}}

\* the body of one source's try block and its except clause
SourceStep(source, clientRaises, metadata, days_old, records, download, files) ==
    IF clientRaises THEN SourceResult("error", "none", 0, 0, "none")
    ELSE IF NeedsUpdate(source, metadata, days_old)
    THEN IF download = "raised" THEN SourceResult("error", "none", 0, 0, download)
         ELSE SourceResult("success", "downloaded", files, 0, download)
    ELSE SourceResult("cached", "skipped", 0, records, "skipped")

\* every result one source's step can leave in the dictionary
SourceResults(source) ==
    {SourceStep(source, c, m, d, r, dl, f) :
        c \in BOOLEAN, m \in MetadataStates, d \in DaysOld, r \in RecordCounts,
        dl \in DownloadEndings(source), f \in 0..MaxFiles}

\* ensure_data_directories(): os.makedirs may raise, and nothing catches it
EnsureDataDirectories(raises) ==
    /\ batchPc = "start"
    /\ IF raises
       THEN batchPc' = "crashed" /\ exitCode' = 1
       ELSE batchPc' = "opendata" /\ exitCode' = exitCode
    /\ UNCHANGED <<results, summaryWritten>>

OpenDataStep(result) ==
    /\ batchPc = "opendata"
    /\ results' = [results EXCEPT !["opendata"] = result]
    /\ batchPc' = "sbdb"
    /\ UNCHANGED <<summaryWritten, exitCode>>

SbdbStep(result) ==
    /\ batchPc = "sbdb"
    /\ results' = [results EXCEPT !["sbdb"] = result]
    /\ batchPc' = "summary"
    /\ UNCHANGED <<summaryWritten, exitCode>>

SuccessCount(res) == Cardinality({src \in Sources : res[src].status = "success"})

\* the summary, the return value and exit(0 if success else 1)
Summarise(writeRaises) ==
    /\ batchPc = "summary"
    /\ IF SuccessCount(results) = Cardinality(Sources)
       THEN IF writeRaises
            THEN batchPc' = "crashed" /\ exitCode' = 1 /\ summaryWritten' = FALSE
            ELSE batchPc' = "exited" /\ exitCode' = 0 /\ summaryWritten' = TRUE
       ELSE batchPc' = "exited" /\ exitCode' = 1 /\ summaryWritten' = summaryWritten
    /\ UNCHANGED results

(***************************************************************************)
(* SolarSystemDataFilter._unify_and_deduplicate                            *)
(***************************************************************************)
MaxRows == 2
MaxSecondaryRows == 1

\* a missing name read from a CSV is the float NaN; str(NaN) is "nan"
NaNName == <<"nan">>
\* SBDB full_name cells come padded with blanks
SbdbNames == {<<"E">>, <<" ", "E">>, NaNName}

TypePlanet == <<"Planet">>
TypeAsteroid == <<"Asteroid">>
TypeWikipedia == <<"Wikipedia_Object">>
TypePhysical == <<"Physical_Data">>

\* one row of a raw table: size is meanRadius / diameter / Diameter, 0 when absent
Row(name, bodyType, size) == [name |-> name, bodyType |-> bodyType, size |-> size]
\* englishName and bodyType are both text cells; names and types are sequences
\* of pieces, so that f"{name}{object_type}" is their concatenation
OpenDataRows ==
    {Row(n, TypePlanet, r) : n \in {<<"E">>, <<"E", "C">>, NaNName}, r \in {0, 5}}
        \cup {Row(<<"E">>, <<"C", "Planet">>, 0)}
SbdbRows == {Row(n, <<>>, 0) : n \in SbdbNames}
WikipediaRows == {Row(n, <<>>, d) : n \in {<<"E">>, <<"e">>, NaNName}, d \in {0, 10}}
JohnstonsRows == {Row(<<"E">>, <<>>, 10), Row(<<"E", "C">>, <<>>, 0)}

SeqsUpTo(S, n) == UNION {[1..k -> S] : k \in 0..n}

\* str.strip()
RECURSIVE LStrip(_)
LStrip(s) == IF s # <<>> /\ Head(s) = " " THEN LStrip(Tail(s)) ELSE s
RECURSIVE RStrip(_)
RStrip(s) == IF s # <<>> /\ s[Len(s)] = " " THEN RStrip(SubSeq(s, 1, Len(s) - 1)) ELSE s
Strip(s) == RStrip(LStrip(s))

UnifiedObject(name, object_type, data_source, mean_radius_km, diameter_km, has_image) ==
    [name |-> name, object_type |-> object_type, data_source |-> data_source,
     mean_radius_km |-> mean_radius_km, diameter_km |-> diameter_km,
     has_image |-> has_image]

CreateUnifiedObjectFromOpendata(row) ==
    UnifiedObject(row.name, row.bodyType, "OpenData", row.size, 0, FALSE)

\* row.get('full_name', '').strip() raises AttributeError on NaN
SbdbRowRaises(row) == row.name = NaNName

CategoryMapping(source) ==
    CASE source = "sbdb_neos" -> <<"NEO">>
      [] source = "sbdb_main_belt" -> TypeAsteroid
      [] source = "sbdb_trojans" -> <<"Trojan_Asteroid">>
      [] source \in {"sbdb_comets_jfc", "sbdb_comets_htc"} -> <<"Comet">>
      [] source = "sbdb_phas" -> <<"PHA">>
      [] source = "sbdb_centaurs" -> <<"Centaur">>
      [] OTHER -> <<"Small_Body">>

CreateUnifiedObjectFromSbdb(row, source) ==
    UnifiedObject(Strip(row.name), CategoryMapping(source), "SBDB", 0, row.size, FALSE)

CreateUnifiedObjectFromScraping(row, source) ==
    IF source = "wikipedia_objects"
    THEN UnifiedObject(row.name, TypeWikipedia, "Scraping", 0, row.size, TRUE)
    ELSE UnifiedObject(row.name, TypePhysical, "Scraping", 0, row.size, FALSE)

\* _calculate_object_hash: md5 of f"{name}{object_type}", represented by the
\* hashed string itself
CalculateObjectHash(obj) == Concat(obj.name, obj.object_type)

\* the locals of one run
UnifyState(objects, hashes, dups, raised) ==
    [objects |-> objects, hashes |-> hashes, dups |-> dups, raised |-> raised]

\* the append-or-count branch shared by the three tiers
AddObject(st, obj) ==
    IF CalculateObjectHash(obj) \notin st.hashes
    THEN UnifyState(Append(st.objects, obj), st.hashes \cup {CalculateObjectHash(obj)},
                    st.dups, st.raised)
    ELSE UnifyState(st.objects, st.hashes, st.dups + 1, st.raised)

RECURSIVE ProcessOpenData(_, _, _)
ProcessOpenData(rows, i, st) ==
    IF i > Len(rows) THEN st
    ELSE ProcessOpenData(rows, i + 1, AddObject(st, CreateUnifiedObjectFromOpendata(rows[i])))

RECURSIVE ProcessSbdb(_, _, _, _)
ProcessSbdb(rows, source, i, st) ==
    IF i > Len(rows) \/ st.raised THEN st
    ELSE IF SbdbRowRaises(rows[i])
    THEN UnifyState(st.objects, st.hashes, st.dups, TRUE)
    ELSE ProcessSbdb(rows, source, i + 1,
                     AddObject(st, CreateUnifiedObjectFromSbdb(rows[i], source)))

\* name.lower() raises AttributeError on NaN
NameMatches(scraping_name, existing_name) ==
    \/ Contains(Lower(existing_name), Lower(scraping_name))
    \/ Contains(Lower(scraping_name), Lower(existing_name))

\* index of the object the enrichment loop stops at: the first one whose name
\* is NaN (the loop raises there) or matches; 0 when the loop runs to the end
RECURSIVE EnrichStop(_, _, _)
EnrichStop(objects, scraping_name, j) ==
    IF j > Len(objects) THEN 0
    ELSE IF objects[j].name = NaNName \/ NameMatches(scraping_name, objects[j].name) THEN j
    ELSE EnrichStop(objects, scraping_name, j + 1)

EnrichRaises(objects, scraping_obj) ==
    \/ scraping_obj.name = NaNName
    \/ (EnrichStop(objects, scraping_obj.name, 1) # 0
        /\ objects[EnrichStop(objects, scraping_obj.name, 1)].name = NaNName)

EnrichedObject(obj, scraping_obj) ==
    [obj EXCEPT !.has_image = IF scraping_obj.has_image THEN TRUE ELSE @,
                !.mean_radius_km = IF scraping_obj.diameter_km # 0 /\ @ = 0
                                   THEN scraping_obj.diameter_km \div 2 ELSE @]

\* _enrich_existing_object_with_scraping, when it does not raise
EnrichExistingObjectWithScraping(objects, scraping_obj) ==
    LET j == EnrichStop(objects, scraping_obj.name, 1)
    IN IF j = 0 THEN objects
       ELSE [objects EXCEPT ![j] = EnrichedObject(objects[j], scraping_obj)]

\* one scraping source; an exception ends the source and is swallowed.
\* run.st are the locals, run.log records each enrichment that returned.
RECURSIVE ProcessScraping(_, _, _, _)
ProcessScraping(rows, source, i, run) ==
    IF i > Len(rows) THEN run
    ELSE LET obj == CreateUnifiedObjectFromScraping(rows[i], source)
             st == run.st
         IN IF CalculateObjectHash(obj) \notin st.hashes
            THEN ProcessScraping(rows, source, i + 1,
                                 [st |-> AddObject(st, obj), log |-> run.log])
            ELSE IF EnrichRaises(st.objects, obj) THEN run
            ELSE LET after == EnrichExistingObjectWithScraping(st.objects, obj)
                 IN ProcessScraping(rows, source, i + 1,
                        [st |-> UnifyState(after, st.hashes, st.dups + 1, st.raised),
                         log |-> Append(run.log, [record |-> obj, before |-> st.objects,
                                                  after |-> after])])

UnifyAndDeduplicateResult(raw, dups) ==
    LET s0 == UnifyState(<<>>, {}, dups, FALSE)
        s1 == ProcessOpenData(raw.opendata_all_bodies, 1, s0)
        s2 == ProcessSbdb(raw.sbdb_main_belt, "sbdb_main_belt", 1, s1)
        s3 == ProcessScraping(raw.wikipedia_objects, "wikipedia_objects", 1,
                              [st |-> s2, log |-> <<>>])
        s4 == ProcessScraping(raw.johnstons_data, "johnstons_data", 1, s3)
    IN IF s2.raised THEN [st |-> s2, log |-> <<>>] ELSE s4

UnifyAndDeduplicate ==
    /\ unifyPc = "ready"
    /\ LET r == UnifyAndDeduplicateResult(rawSources, duplicatesRemoved)
       IN /\ unifyPc' = IF r.st.raised THEN "raised" ELSE "done"
          /\ unified' = IF r.st.raised THEN unified ELSE r.st.objects
          /\ enrichments' = r.log
          /\ duplicatesRemoved' = r.st.dups
    /\ UNCHANGED rawSources

(***************************************************************************)
(* get_objects: query parameters and pagination                            *)
(***************************************************************************)
MaxExtraRows == 5
MaxDepth == 2
MaxSamples == 3
MaxFeature == 1
MaxClusters == 2
MaxTableRows == 2
MaxAliases == 3
MaxFetches == 3
MaxGap == 3

DEFAULT_PAGE_SIZE == 50
MAX_PAGE_SIZE == 200

\* a query parameter read with request.args.get: not sent, an integer
\* literal, or text that int() rejects
QueryArg(kind, value) == [kind |-> kind, value |-> value]
PageArgs == {QueryArg("absent", 0), QueryArg("text", 0)}
            \cup {QueryArg("int", v) : v \in {-1, 0, 1, 2, 3}}
PageSizeArgs == {QueryArg("absent", 0), QueryArg("text", 0)}
                \cup {QueryArg("int", v) : v \in {-1, 0, 1, 10, MAX_PAGE_SIZE, MAX_PAGE_SIZE + 1}}
\* len(objects) of the filtered set
TableSizes == {0, 25, MAX_PAGE_SIZE + MaxExtraRows}

\* Python's a // b
FloorDiv(a, b) == IF b > 0 THEN a \div b ELSE (0 - a) \div (0 - b)

\* objects[start:end] on a table of n rows: the 1-based position of the
\* first row kept and the number of rows kept
PySlice(n, start, end) ==
    LET clip(x) == IF x < 0 THEN (IF n + x < 0 THEN 0 ELSE n + x)
                   ELSE IF x > n THEN n ELSE x
    IN [first |-> clip(start) + 1,
        count |-> IF clip(end) > clip(start) THEN clip(end) - clip(start) ELSE 0]

\* variant: pages counted from zero
PageStart_ZeroBased(page, page_size) == page * page_size
\* start = (page - 1) * page_size
PageStart(page, page_size) == (page - 1) * page_size

NoListing == [status |-> 0, n |-> 0, pageArg |-> QueryArg("absent", 0),
              sizeArg |-> QueryArg("absent", 0), page |-> 0, page_size |-> 0,
              first |-> 0, count |-> 0, total_pages |-> 0]

\* get_objects over a filtered set of n rows
GetObjectsListing(n, pageArg, sizeArg) ==
    LET page == IF pageArg.kind = "absent" THEN 1 ELSE pageArg.value
        asked == IF sizeArg.kind = "absent" THEN DEFAULT_PAGE_SIZE ELSE sizeArg.value
        page_size == IF asked < MAX_PAGE_SIZE THEN asked ELSE MAX_PAGE_SIZE
        start == PageStart(page, page_size)
        rows == PySlice(n, start, start + page_size)
        failed == [NoListing EXCEPT !.status = 500, !.n = n,
                                    !.pageArg = pageArg, !.sizeArg = sizeArg]
    IN IF pageArg.kind = "text" \/ sizeArg.kind = "text" THEN failed
       ELSE IF page_size = 0 THEN failed
       ELSE [status |-> 200, n |-> n, pageArg |-> pageArg, sizeArg |-> sizeArg,
             page |-> page, page_size |-> page_size,
             first |-> rows.first, count |-> rows.count,
             total_pages |-> FloorDiv(n + page_size - 1, page_size)]

ReqObjectsListing ==
    \E n \in TableSizes, pageArg \in PageArgs, sizeArg \in PageSizeArgs :
        listing' = GetObjectsListing(n, pageArg, sizeArg)

(***************************************************************************)
(* get_object_detail: record conversion, radius fallback, enrichment       *)
(***************************************************************************)
\* A cell of the catalogue row and an entry of obj_dict: the column/key is
\* missing, the cell is empty (NaN), the entry is None, or a number.
\* Lengths are in half kilometres, so that d / 2.0 is exact.
Cell(kind, value) == [kind |-> kind, value |-> value]
Km(x) == Cell("num", 2 * x)

\* main_objects.csv: mean_radius_km / diameter_km / has_orbital_data of a row
RadiusCells == {Cell("missing", 0), Cell("nan", 0), Km(3)}
DiameterCells == {Cell("missing", 0), Cell("nan", 0), Km(10), Km(7)}
OrbitalFlagCells == {"missing", "nan", "true", "false"}

\* how horizons_service.get_orbital_data / images_service.fetch_image end
HorizonsEnrichments == {"horizons", "local_data", "raises"}
ImageEnrichments == {"image", "raises"}

\* series_to_json_safe, per entry: every column of the row stays a key,
\* an empty cell becomes None
SeriesToJsonSafe(cell) == IF cell.kind = "nan" THEN Cell("None", 0) ELSE cell

\* variant: the enrichment call outside any try block
TryEnrichment_Unguarded(outcome) ==
    [value |-> outcome, propagates |-> outcome = "raises"]
\* try: x = service call ... except Exception: print(...), with x = None before
TryEnrichment(outcome) ==
    [value |-> IF outcome = "raises" THEN "None" ELSE outcome, propagates |-> FALSE]

NoDetail == [status |-> 0, found |-> FALSE, radius |-> Cell("missing", 0),
             diameter |-> Cell("missing", 0), flag |-> "missing",
             hz |-> "none", img |-> "none",
             mean_radius_km |-> Cell("missing", 0), orbital_data |-> "None",
             image |-> "None", hzAttempted |-> FALSE, imgAttempted |-> FALSE]

\* get_object_detail
GetObjectDetail(found, radius, diameter, flag, hz, img) ==
    LET request == [NoDetail EXCEPT !.found = found, !.radius = radius,
                                    !.diameter = diameter, !.flag = flag,
                                    !.hz = hz, !.img = img]
        obj_radius == SeriesToJsonSafe(radius)
        obj_diameter == SeriesToJsonSafe(diameter)
        \* 'mean_radius_km' not in obj_dict and 'diameter_km' in obj_dict
        fallback == obj_radius.kind = "missing" /\ obj_diameter.kind # "missing"
        mean_radius_km == IF fallback THEN Cell("num", obj_diameter.value \div 2)
                          ELSE obj_radius
        \* obj_dict.get('has_orbital_data', True)
        wantsOrbital == flag \in {"missing", "true"}
        orbital == IF wantsOrbital THEN TryEnrichment(hz)
                   ELSE [value |-> "None", propagates |-> FALSE]
        image == TryEnrichment(img)
    IN IF ~ found THEN [request EXCEPT !.status = 404]
       \* None / 2.0 raises TypeError, caught by the outer except
       ELSE IF fallback /\ obj_diameter.kind = "None"
       THEN [request EXCEPT !.status = 500]
       ELSE IF orbital.propagates
       THEN [request EXCEPT !.status = 500, !.hzAttempted = TRUE]
       ELSE IF image.propagates
       THEN [request EXCEPT !.status = 500, !.hzAttempted = wantsOrbital,
                            !.imgAttempted = TRUE]
       ELSE [request EXCEPT !.status = 200,
                            !.mean_radius_km = mean_radius_km,
                            !.orbital_data = orbital.value,
                            !.image = image.value,
                            !.hzAttempted = wantsOrbital,
                            !.imgAttempted = TRUE]

ObjectDetailRequest ==
    \E found \in BOOLEAN, radius \in RadiusCells, diameter \in DiameterCells,
       flag \in OrbitalFlagCells, hz \in HorizonsEnrichments,
       img \in ImageEnrichments :
        detail' = GetObjectDetail(found, radius, diameter, flag, hz, img)

(***************************************************************************)
(* json_utils: clean_for_json and dataframe_to_json_safe                   *)
(***************************************************************************)
\* A Python value: a scalar of a given type whose numeric value is finite,
\* nan, inf or -inf, or a list / dict / numpy array of values (a dict is
\* given by its values; keys are not touched by the cleaner).
Scalar(type, value) == [node |-> "scalar", type |-> type, value |-> value, items |-> <<>>]
Container(node, items) == [node |-> node, type |-> node, value |-> "finite", items |-> items]

FloatValues == {"finite", "nan", "inf", "-inf"}
Scalars ==
    {Scalar(t, "finite") : t \in {"int", "str", "NoneType", "np.int64", "np.bool_"}}
        \cup {Scalar(t, v) : t \in {"float", "np.float64", "Decimal"}, v \in FloatValues}
\* the structures handed to the cleaner: nesting up to MaxDepth containers
Nested1 == {Container(c, <<s>>) : c \in {"list", "dict"}, s \in Scalars}
               \cup {Container("ndarray", <<Scalar(t, v)>>) :
                        t \in {"np.float64"}, v \in FloatValues}
               \cup {Container("list", <<Scalar("np.int64", "finite"), s>>) :
                        s \in {Scalar("np.float64", "nan"), Scalar("float", "inf")}}
Nested2 == {Container(c, <<n>>) : c \in {"list", "dict"}, n \in Nested1}
NestedValues == Scalars \cup Nested1 \cup (IF MaxDepth >= 2 THEN Nested2 ELSE {})

\* the cells of a one-column table: a float64, an int64 or an object column
TableCells == {Scalar("np.float64", v) : v \in FloatValues}
                 \cup {Scalar("np.int64", "finite"), Scalar("str", "finite"),
                       Scalar("NoneType", "finite")}

RECURSIVE CleanForJson(_)
\* clean_for_json on a dict, list, array or scalar
CleanForJson(obj) ==
    LET each(items) == [i \in DOMAIN items |-> CleanForJson(items[i])]
        \* ndarray.tolist(): the elements as Python numbers
        native(x) == IF x.type = "np.float64" THEN Scalar("float", x.value)
                     ELSE IF x.type = "np.int64" THEN Scalar("int", x.value)
                     ELSE x
        \* pd.isna on a scalar
        isna == obj.type = "NoneType" \/ (obj.type = "float" /\ obj.value = "nan")
    IN IF obj.node \in {"dict", "list"} THEN [obj EXCEPT !.items = each(obj.items)]
       ELSE IF obj.type = "np.int64" THEN Scalar("int", obj.value)
       ELSE IF obj.type = "np.float64"
       THEN IF obj.value \in {"nan", "inf", "-inf"} THEN Scalar("NoneType", "finite")
            ELSE Scalar("float", obj.value)
       ELSE IF obj.node = "ndarray"
       THEN Container("list", each([i \in DOMAIN obj.items |-> native(obj.items[i])]))
       ELSE IF obj.type = "Decimal" THEN Scalar("float", obj.value)
       ELSE IF isna THEN Scalar("NoneType", "finite")
       ELSE obj

\* dataframe_to_json_safe on a one-column table.  `nulled` is what
\* replace(...).where(...) leaves in a cell that held nan or +-inf (None in an
\* object column, nan in a float column); `boxed` tells whether
\* to_dict('records') hands out Python numbers or numpy scalars.
DataframeToJsonSafe(cells, nulled, boxed) ==
    LET df_clean(c) == IF c.type = "np.float64" /\ c.value # "finite" THEN nulled ELSE c
        box(c) == IF ~ boxed THEN c
                  ELSE IF c.type = "np.float64" THEN Scalar("float", c.value)
                  ELSE IF c.type = "np.int64" THEN Scalar("int", c.value)
                  ELSE c
        result == Container("list",
                      [i \in DOMAIN cells |-> Container("dict", <<box(df_clean(cells[i]))>>)])
    IN CleanForJson(result)

NoCleaning == [called |-> "none", input |-> Scalar("NoneType", "finite"),
               output |-> Scalar("NoneType", "finite")]

CleanNested ==
    \E obj \in NestedValues :
        cleaned' = [called |-> "clean_for_json", input |-> obj,
                    output |-> CleanForJson(obj)]

CleanTable ==
    \E cells \in {<<a>> : a \in TableCells} \cup {<<a, b>> : a, b \in TableCells},
       nulled \in {Scalar("NoneType", "finite"), Scalar("np.float64", "nan")},
       boxed \in BOOLEAN :
        cleaned' = [called |-> "dataframe_to_json_safe",
                    input |-> Container("DataFrame", cells),
                    output |-> DataframeToJsonSafe(cells, nulled, boxed)]

(***************************************************************************)
(* SolarSystemDataProcessor._simple_kmeans                                 *)
(***************************************************************************)
MAX_ITERS == 100

\* data: n_samples rows of one integer feature.  A centroid is the mean of
\* its members, kept as the fraction num / den, or nan (the mean of no rows).
Centroid(nan, num, den) == [nan |-> nan, num |-> num, den |-> den]
KMeansData == UNION {[1..n -> 0..MaxFeature] : n \in 1..MaxSamples}
ClusterCounts == 1..MaxClusters

\* np.random.choice(n_samples, k, replace=False): k distinct row indices
Choices(n, k) == {c \in [1..k -> 1..n] : \A i, j \in 1..k : i # j => c[i] # c[j]}

\* variant: the position of the minimum counted from one
ArgMin_OneBased(x, centroids) ==
    LET k == Len(centroids)
        far(i) == IF x * centroids[i].den >= centroids[i].num
                  THEN x * centroids[i].den - centroids[i].num
                  ELSE centroids[i].num - x * centroids[i].den
        le(i, j) == far(i) * centroids[j].den <= far(j) * centroids[i].den
    IN CHOOSE i \in 1..k : \A j \in 1..k : le(i, j) /\ (le(j, i) => i <= j)
\* np.argmin over the distances of one row to the k centroids: the first
\* nan if a distance is nan, otherwise the first minimum
ArgMin(x, centroids) ==
    LET k == Len(centroids)
        nans == {i \in 1..k : centroids[i].nan}
        \* |x - num/den| * den
        far(i) == IF x * centroids[i].den >= centroids[i].num
                  THEN x * centroids[i].den - centroids[i].num
                  ELSE centroids[i].num - x * centroids[i].den
        le(i, j) == far(i) * centroids[j].den <= far(j) * centroids[i].den
    IN IF nans # {}
       THEN (CHOOSE i \in nans : \A j \in nans : i <= j) - 1
       ELSE (CHOOSE i \in 1..k : \A j \in 1..k : le(i, j) /\ (le(j, i) => i <= j)) - 1

\* data[clusters == i].mean(axis=0)
ClusterMean(data, clusters, i) ==
    LET members == {r \in DOMAIN data : clusters[r] = i}
        sum[r \in 0..Len(data)] ==
            IF r = 0 THEN 0 ELSE sum[r - 1] + (IF r \in members THEN data[r] ELSE 0)
    IN IF members = {} THEN Centroid(TRUE, 0, 1)
       ELSE Centroid(FALSE, sum[Len(data)], Cardinality(members))

\* np.allclose(centroids, new_centroids)
AllClose(a, b) ==
    \A i \in DOMAIN a :
        /\ ~ a[i].nan
        /\ ~ b[i].nan
        /\ a[i].num * b[i].den = b[i].num * a[i].den

NoKMeans == [pc |-> "idle", data |-> <<>>, k |-> 0, centroids |-> <<>>,
             clusters |-> <<>>, iters |-> 0, emptied |-> FALSE]

\* the call, up to the start of the loop
KMeansStart ==
    /\ km.pc = "idle"
    /\ \E data \in KMeansData, k \in ClusterCounts :
          /\ Len(data) >= k
          /\ \E c \in Choices(Len(data), k) :
                km' = [pc |-> "loop", data |-> data, k |-> k,
                       centroids |-> [i \in 1..k |-> Centroid(FALSE, data[c[i]], 1)],
                       clusters |-> <<>>, iters |-> 0, emptied |-> FALSE]

\* one pass of `for _ in range(max_iters)`
KMeansIterate ==
    /\ km.pc = "loop"
    /\ LET clusters == [r \in DOMAIN km.data |-> ArgMin(km.data[r], km.centroids)]
           new_centroids == [i \in 1..km.k |-> ClusterMean(km.data, clusters, i - 1)]
           converged == AllClose(km.centroids, new_centroids)
           iters == km.iters + 1
       IN km' = [km EXCEPT !.clusters = clusters,
                           !.iters = iters,
                           !.emptied = km.emptied \/ \E i \in 1..km.k : new_centroids[i].nan,
                           !.centroids = IF converged THEN km.centroids ELSE new_centroids,
                           !.pc = IF converged \/ iters >= MAX_ITERS THEN "done" ELSE "loop"]

(***************************************************************************)
(* DataValidator.validate_dataframe                                        *)
(***************************************************************************)
\* A cell: null (NaN), or the number m * 10^(e-3) with a four-digit mantissa
\* (1000 <= |m| <= 9999) or m = 0.
Num(m, e) == [null |-> FALSE, m |-> m, e |-> e]
Null == [null |-> TRUE, m |-> 0, e |-> 0]

\* a < b on numbers
Lt(a, b) ==
    LET sign(x) == IF x.m > 0 THEN 1 ELSE IF x.m < 0 THEN -1 ELSE 0
    IN IF sign(a) # sign(b) THEN sign(a) < sign(b)
       ELSE IF sign(a) = 0 THEN FALSE
       ELSE IF sign(a) = 1 THEN a.e < b.e \/ (a.e = b.e /\ a.m < b.m)
       ELSE a.e > b.e \/ (a.e = b.e /\ a.m < b.m)

\* self.valid_ranges, for the columns of the tables below
ValidRanges ==
    [mass_kg |-> [min |-> Num(1000, 16), max |-> Num(2000, 30)],
     eccentricity |-> [min |-> Num(0, 0), max |-> Num(9990, -1)]]

\* tables with the columns name, eccentricity, mass_kg
ValidatorRows ==
    [name : {"earth", "Ceres"},
     eccentricity : {Null, Num(0, 0), Num(9990, -1), Num(1000, 0)},
     mass_kg : {Num(1000, 15), Num(1000, 16), Num(2000, 30), Num(3000, 30)},
     class : {"no column"}]
ValidatorTables == UNION {[1..n -> ValidatorRows] : n \in 1..MaxTableRows}
\* asteroid tables, with the fourth column class; "nan" is an empty cell
AsteroidRows ==
    [name : {"earth", "Ceres"},
     eccentricity : {Null, Num(0, 0), Num(1000, 0)},
     mass_kg : {Null, Num(1000, 16)},
     class : {"nan", "XX", "MBA"}]
AsteroidTables == UNION {[1..n -> AsteroidRows] : n \in 1..MaxTableRows}
\* the column, if any, whose dtype is object rather than numeric
ObjectColumns == {"none", "eccentricity", "mass_kg"}

\* _standardize_name
StandardizeName(name) == IF name = "earth" THEN "Earth" ELSE name

\* variant: the bounds themselves count as out of range
OutOfRange_Exclusive(v, col) ==
    ~ v.null /\ (~ Lt(ValidRanges[col].min, v) \/ ~ Lt(v, ValidRanges[col].max))
\* (df_clean[col] < min_val) | (df_clean[col] > max_val)
OutOfRange(v, col) ==
    ~ v.null /\ (Lt(v, ValidRanges[col].min) \/ Lt(ValidRanges[col].max, v))

\* variant: a row with half of its fields null is removed as well
TooManyNulls_FromHalf(nulls, columns) == 2 * nulls >= columns
\* isnull().sum(axis=1) / len(df_clean.columns) > 0.5
TooManyNulls(nulls, columns) == 2 * nulls > columns

\* the rows of a table that satisfy keep, in order
FilterRows(rows, keep(_)) ==
    LET f[i \in 0..Len(rows)] ==
            IF i = 0 THEN <<>>
            ELSE IF keep(rows[i]) THEN Append(f[i - 1], rows[i]) ELSE f[i - 1]
    IN f[Len(rows)]

\* validate_dataframe(df, data_type) for a non-empty table and data_type
\* 'general' or 'asteroids': the rows returned, each carrying the index of the
\* input row it comes from, and the kinds of entries of stats['issues_found']
ValidateDataframe(df, objectColumn, data_type) ==
    LET hasClass == df[1].class # "no column"
        columns == IF hasClass THEN 4 ELSE 3
        named == [i \in DOMAIN df |->
                     [src |-> i, name |-> StandardizeName(df[i].name),
                      eccentricity |-> df[i].eccentricity, mass_kg |-> df[i].mass_kg,
                      class |-> df[i].class]]
        \* duplicated(subset=['name'], keep='first')
        deduped == FilterRows(named,
                       LAMBDA r : \A j \in 1..(r.src - 1) : named[j].name # r.name)
        checked(col) == col # objectColumn
        ranged == [i \in DOMAIN deduped |->
                     [deduped[i] EXCEPT
                        !.eccentricity = IF checked("eccentricity") /\ OutOfRange(@, "eccentricity")
                                         THEN Null ELSE @,
                        !.mass_kg = IF checked("mass_kg") /\ OutOfRange(@, "mass_kg")
                                    THEN Null ELSE @]]
        nulls(r) == (IF r.eccentricity.null THEN 1 ELSE 0) + (IF r.mass_kg.null THEN 1 ELSE 0)
                    + (IF r.class = "nan" THEN 1 ELSE 0)
        valid_classes == {"MBA", "NEO", "TNO", "CEN", "TJN", "AMO", "APO", "ATE"}
        issues ==
            (IF Len(deduped) < Len(df) THEN {"Duplicados encontrados"} ELSE {})
            \cup (IF ranged # deduped THEN {"Valores fuera de rango"} ELSE {})
            \cup (IF /\ data_type = "asteroids" /\ hasClass
                     /\ \E i \in DOMAIN ranged : ranged[i].class \notin valid_classes
                  THEN {"Clases de asteroides no reconocidas"} ELSE {})
            \cup (IF \E i \in DOMAIN ranged : TooManyNulls(nulls(ranged[i]), columns)
                  THEN {"Registros con >50% valores nulos"} ELSE {})
    IN [rows |-> FilterRows(ranged, LAMBDA r : ~ TooManyNulls(nulls(r), columns)),
        issues |-> issues]

NoValidation == [called |-> FALSE, df |-> <<>>, objectColumn |-> "none",
                 data_type |-> "none", df_clean |-> <<>>, issues |-> {}]

ValidationCall(df, objectColumn, data_type) ==
    LET result == ValidateDataframe(df, objectColumn, data_type)
    IN [called |-> TRUE, df |-> df, objectColumn |-> objectColumn,
        data_type |-> data_type, df_clean |-> result.rows, issues |-> result.issues]

Validate ==
    /\ ~ validated.called
    /\ \E df \in ValidatorTables, objectColumn \in ObjectColumns :
          validated' = ValidationCall(df, objectColumn, "general")

ValidateAsteroids ==
    /\ ~ validated.called
    /\ \E df \in AsteroidTables :
          validated' = ValidationCall(df, "none", "asteroids")

(***************************************************************************)
(* ClusteringAnalysis.classify_cluster_type                                *)
(***************************************************************************)
\* An entry of the stats dict: the key is missing, the mean is nan, or a
\* number.  a and e are in tenths (a = 30 is 3.0 AU, e = 2 is 0.2), i in degrees.
Stat(kind, value) == [kind |-> kind, value |-> value]
SemimajorAxisMeans ==
    {Stat("missing", 0), Stat("nan", 0)}
        \cup {Stat("num", v) : v \in {0, 12, 13, 16, 17, 19, 20, 30, 35, 36, 47, 48,
                                      50, 55, 56, 89, 90, 300, 301}}
EccentricityMeans ==
    {Stat("missing", 0), Stat("nan", 0)} \cup {Stat("num", v) : v \in {0, 2, 3, 6, 7, 8}}
InclinationMeans ==
    {Stat("missing", 0), Stat("nan", 0)} \cup {Stat("num", v) : v \in {0, 30, 31}}

\* stats.get(key, 0)
StatsGet(stat) == IF stat.kind = "missing" THEN Stat("num", 0) ELSE stat

\* variant: the main-belt rule without its bound on the eccentricity
MainBelt_AnyEccentricity(a, e) == 20 <= a /\ a <= 35
\* 2.0 <= a <= 3.5 and e < 0.3
MainBelt(a, e) == 20 <= a /\ a <= 35 /\ e < 3

\* classify_cluster_type; a comparison with nan is False
ClassifyClusterType(avg_semimajor_axis, avg_eccentricity, avg_inclination) ==
    LET a == StatsGet(avg_semimajor_axis).value
        e == StatsGet(avg_eccentricity).value
        i == StatsGet(avg_inclination)
    IN IF StatsGet(avg_semimajor_axis).kind = "nan" \/ StatsGet(avg_eccentricity).kind = "nan"
       THEN "Datos insuficientes"
       ELSE IF MainBelt(a, e) THEN "Asteroides del Cinturon Principal"
       ELSE IF 48 <= a /\ a <= 55 THEN "Asteroides Troyanos de Jupiter"
       ELSE IF a < 13 \/ (a < 17 /\ e > 6) THEN "Objetos Cercanos a la Tierra (NEO)"
       ELSE IF e > 7 /\ a > 30 THEN "Objetos Tipo Cometa (Alta Excentricidad)"
       ELSE IF 90 <= a /\ a <= 300 THEN "Centauros"
       ELSE IF i.kind = "num" /\ i.value > 30 THEN "Objetos de Alta Inclinacion"
       ELSE "Poblacion Mixta"

NoClassification == [label |-> "none", a |-> Stat("missing", 0),
                     e |-> Stat("missing", 0), i |-> Stat("missing", 0)]

Classify ==
    \E a \in SemimajorAxisMeans, e \in EccentricityMeans, i \in InclinationMeans :
        classified' = [label |-> ClassifyClusterType(a, e, i), a |-> a, e |-> e, i |-> i]

(***************************************************************************)
(* NEOClient.get_neos_for_date_range                                       *)
(***************************************************************************)
RANGE_CACHE_DAYS_AHEAD == 30

\* datetime.now().date(), as a day number
Today == 100
\* start_date as a day number, and end_date - start_date in days
RangeStarts == {Today - 2 * RANGE_CACHE_DAYS_AHEAD, Today - RANGE_CACHE_DAYS_AHEAD - 1,
                Today - RANGE_CACHE_DAYS_AHEAD, Today, Today + RANGE_CACHE_DAYS_AHEAD - 1,
                Today + RANGE_CACHE_DAYS_AHEAD, Today + RANGE_CACHE_DAYS_AHEAD + 1,
                Today + 2 * RANGE_CACHE_DAYS_AHEAD}
RangeSpans == {0, FEED_MAX_DAYS, FEED_MAX_DAYS + 1}
\* how the feed request ends when get_feed lets it through
RangeFeedOutcomes == {"ok", "raises"}

\* variant: the thirtieth day ahead is left out
CacheableStart_Strict(start_dt, today) == start_dt < today + RANGE_CACHE_DAYS_AHEAD
\* start_dt <= datetime.now().date() + timedelta(days=30)
CacheableStart(start_dt, today) == start_dt <= today + RANGE_CACHE_DAYS_AHEAD

NoRangeCall == [data_source |-> "none", start |-> 0, span |-> 0, use_cache |-> FALSE,
                cached |-> FALSE, feed |-> "none", written |-> FALSE]

\* get_neos_for_date_range; `cached` tells whether _get_from_cache finds a
\* fresh entry under range_{start}_{end}
GetNeosForDateRange(start, span, use_cache, cached, feed) ==
    LET request == [NoRangeCall EXCEPT !.start = start, !.span = span,
                                       !.use_cache = use_cache, !.cached = cached,
                                       !.feed = feed]
    IN IF use_cache /\ cached THEN [request EXCEPT !.data_source = "cache"]
       ELSE IF SpanTooLong(start, start + span) \/ feed = "raises"
       THEN [request EXCEPT !.data_source = "error"]
       ELSE [request EXCEPT !.data_source = "api",
                            !.written = CacheableStart(start, Today)]

RangeQuery ==
    \E start \in RangeStarts, span \in RangeSpans, use_cache \in BOOLEAN,
       cached \in BOOLEAN, feed \in RangeFeedOutcomes :
        rangeCall' = GetNeosForDateRange(start, span, use_cache, cached, feed)

(***************************************************************************)
(* SolarSystemDataIntegrator.extract_all_data                              *)
(***************************************************************************)
\* the extraction calls, by the try block that holds them, in program order
ExtractionBlocks ==
    <<<<"planets_opendata", "planets_facts">>,
      <<"moons_opendata", "moon_facts", "jovian_moons">>,
      <<"asteroids">>,
      <<"comets">>,
      <<"neos">>>>
ExtractionSources ==
    UNION {{ExtractionBlocks[b][i] : i \in DOMAIN ExtractionBlocks[b]} :
              b \in DOMAIN ExtractionBlocks}

NoExtraction == [returned |-> FALSE, outcome |-> [s \in ExtractionSources |-> "ok"],
                 saveFails |-> "none", attempted |-> {}, datasets |-> {}]

\* extract_all_data: outcome[s] tells how the call of source s ends if it is
\* made; saveFails names the source whose _save_raw_data raises, if any
ExtractAllData(outcome, saveFails) ==
    LET \* one try block: the calls run in order until one raises
        block(steps) ==
            LET f[i \in 0..Len(steps)] ==
                    IF i = 0 THEN [alive |-> TRUE, attempted |-> {}, datasets |-> {}]
                    ELSE LET before == f[i - 1]
                             s == steps[i]
                         IN IF ~ before.alive THEN before
                            ELSE IF outcome[s] = "raises"
                            THEN [alive |-> FALSE,
                                  attempted |-> before.attempted \cup {s},
                                  datasets |-> before.datasets]
                            ELSE [alive |-> saveFails # s,
                                  attempted |-> before.attempted \cup {s},
                                  datasets |-> before.datasets \cup {s}]
            IN f[Len(steps)]
        blocks == [b \in DOMAIN ExtractionBlocks |-> block(ExtractionBlocks[b])]
    IN [returned |-> TRUE, outcome |-> outcome, saveFails |-> saveFails,
        attempted |-> UNION {blocks[b].attempted : b \in DOMAIN blocks},
        datasets |-> UNION {blocks[b].datasets : b \in DOMAIN blocks}]

ExtractAll ==
    /\ ~ extraction.returned
    /\ \E outcome \in [ExtractionSources -> {"ok", "raises"}],
          saveFails \in ExtractionSources \cup {"none"} :
          extraction' = ExtractAllData(outcome, saveFails)

(***************************************************************************)
(* ImagesService._fetch_from_nasa_api                                      *)
(***************************************************************************)
MAX_ALIAS_TERMS == 2
MAX_SEARCH_TERMS == 3

\* how one search request ends: a relevant image, a 200 without a usable
\* image, another status, a timeout, or another exception
SearchOutcomes == {"image", "no_image", "non200", "timeout", "error"}

\* len(search_terms): [object_name] extended by aliases[:2]
SearchTerms(aliases) == 1 + (IF aliases > MAX_ALIAS_TERMS THEN MAX_ALIAS_TERMS ELSE aliases)

\* variant: a timeout handled like any other exception
BreaksLoop_Never(outcome) == FALSE
\* except requests.exceptions.Timeout: ... break
BreaksLoop(outcome) == outcome = "timeout"

NoImageFetch == [pc |-> "idle", aliases |-> 0, terms |-> 0, i |-> 0,
                 requests |-> <<>>, result |-> "none"]

\* the call, up to the loop over the search terms
FetchFromNasaApi ==
    /\ imageFetch.pc = "idle"
    /\ \E aliases \in 0..MaxAliases :
          imageFetch' = [NoImageFetch EXCEPT !.pc = "loop", !.aliases = aliases,
                                             !.terms = SearchTerms(aliases)]

\* one pass of the loop: the guard i >= 3, the request and what follows it
SearchRequest ==
    /\ imageFetch.pc = "loop"
    /\ IF imageFetch.i >= imageFetch.terms \/ imageFetch.i >= MAX_SEARCH_TERMS
       THEN imageFetch' = [imageFetch EXCEPT !.pc = "done", !.result = "placeholder"]
       ELSE \E outcome \in SearchOutcomes :
              LET sent == Append(imageFetch.requests, outcome)
              IN IF outcome = "image"
                 THEN imageFetch' = [imageFetch EXCEPT !.requests = sent, !.pc = "done",
                                                       !.result = "image"]
                 ELSE IF BreaksLoop(outcome)
                 THEN imageFetch' = [imageFetch EXCEPT !.requests = sent, !.pc = "done",
                                                       !.result = "placeholder"]
                 ELSE imageFetch' = [imageFetch EXCEPT !.requests = sent,
                                                       !.i = imageFetch.i + 1]

(***************************************************************************)
(* ScraperBase._wait_if_needed and fetch_page                              *)
(***************************************************************************)
\* delay: float = 2.0, in seconds
SCRAPER_DELAY == 2

\* time.time() when the scraper is constructed; last_request_time starts at 0
ScraperStart == 10
\* seconds between the end of one fetch_page call and the next call, and the
\* seconds a GET takes
FetchGaps == 0..MaxGap
GetDurations == {0, 1}

\* _wait_if_needed: the time at which it returns
WaitIfNeeded(t, last_request_time) ==
    LET elapsed == t - last_request_time
    IN IF elapsed < SCRAPER_DELAY THEN t + (SCRAPER_DELAY - elapsed) ELSE t

NoFetches == [t |-> ScraperStart, last_request_time |-> 0, calls |-> 0,
              issued |-> 0, outcome |-> "none",
              prevIssued |-> 0, prevOutcome |-> "none"]

\* fetch_page: the wait, the GET issued at `issued`, and what the call leaves
FetchPage ==
    /\ scraper.calls < MaxFetches
    /\ \E gap \in FetchGaps, took \in GetDurations, outcome \in {"page", "raises"} :
          LET called == scraper.t + gap
              issued == WaitIfNeeded(called, scraper.last_request_time)
              ended == issued + took
          IN scraper' = [t |-> ended,
                         \* self.last_request_time = time.time(), after raise_for_status()
                         last_request_time |-> IF outcome = "page" THEN ended
                                               ELSE scraper.last_request_time,
                         calls |-> scraper.calls + 1,
                         issued |-> issued, outcome |-> outcome,
                         prevIssued |-> scraper.issued, prevOutcome |-> scraper.outcome]

(***************************************************************************)
(* DataProcessor._enrich_with_analysis: DBSCAN anomalies                   *)
(***************************************************************************)
MaxObjects == 2
MaxAnomalies == 1

\* An orbital cell: None/NaN, or a number held in ten-thousandths (a, e, q) or
\* in hundredths of a degree (i).
Orb(v) == [none |-> FALSE, v |-> v]
OrbNone == [none |-> TRUE, v |-> 0]

\* rows of the unified objects and of analysis_results['dbscan_anomalies']
ObjectRows ==
    {[a |-> a, e |-> e, i |-> iq[1], q |-> iq[2]] :
        a \in {Orb(10000), Orb(10004)},
        e \in {OrbNone, Orb(5000), Orb(9000)},
        iq \in {<<Orb(1000), OrbNone>>, <<Orb(16000), OrbNone>>, <<Orb(1000), Orb(500)>>}}
AnomalyRows ==
    {[a |-> a, e |-> e, i |-> Orb(1000)] :
        a \in {Orb(10000), Orb(20000), OrbNone}, e \in {Orb(5000), Orb(9000)}}

\* self._safe_float(x) or default: None and 0.0 are both falsy
SafeFloatOr(cell, default) == IF cell.none \/ cell.v = 0 THEN default ELSE cell.v

\* f"{x:.3f}" of ten-thousandths and f"{x:.1f}" of hundredths: the digits kept
\* (no value here ends in 5)
RoundLastDigit(v) == (v + 5) \div 10

\* the signature of an anomaly row; formatting None raises TypeError
AnomalySignature(row) ==
    IF row.a.none \/ row.e.none \/ row.i.none THEN <<"TypeError">>
    ELSE <<RoundLastDigit(row.a.v), RoundLastDigit(row.e.v), RoundLastDigit(row.i.v)>>

\* the signature of a unified object
ObjectSignature(row) ==
    <<RoundLastDigit(SafeFloatOr(row.a, 0)), RoundLastDigit(SafeFloatOr(row.e, 0)),
      RoundLastDigit(SafeFloatOr(row.i, 0))>>

\* the extreme-parameter test of the fallback
IsExtremeAnomaly(row) ==
    \/ SafeFloatOr(row.e, 0) > 8000
    \/ SafeFloatOr(row.i, 0) > 15000
    \/ SafeFloatOr(row.q, 100000) < 1000

\* variant: the fallback runs in every call
FallbackNeeded_Always(anomalies_found) == TRUE
\* if anomalies_found == 0
FallbackNeeded(anomalies_found) == anomalies_found = 0

Flag(is_anomaly, anomaly_type) == [is_anomaly |-> is_anomaly, anomaly_type |-> anomaly_type]

\* the anomaly part of _enrich_with_analysis: how the call ends and the
\* is_anomaly / anomaly_type cells of the returned table
EnrichWithAnomalies(objects, hasAnomalies, anomalies) ==
    LET inputs == [called |-> TRUE, objects |-> objects,
                   hasAnomalies |-> hasAnomalies, anomalies |-> anomalies]
        anomaly_signatures == {AnomalySignature(anomalies[j]) : j \in DOMAIN anomalies}
        matched == [idx \in DOMAIN objects |->
                       ObjectSignature(objects[idx]) \in anomaly_signatures]
        anomalies_found == Cardinality({idx \in DOMAIN objects : matched[idx]})
        marked == [idx \in DOMAIN objects |->
                      IF matched[idx] THEN Flag(TRUE, "DBSCAN_Outlier")
                      ELSE Flag(FALSE, "None")]
        fallback == [idx \in DOMAIN objects |->
                        IF IsExtremeAnomaly(objects[idx])
                        THEN Flag(TRUE, "Extreme_Orbital_Parameters")
                        ELSE marked[idx]]
    IN IF ~ hasAnomalies
       THEN inputs @@ [ended |-> "returned",
                       flags |-> [idx \in DOMAIN objects |-> Flag(FALSE, "no column")]]
       ELSE IF <<"TypeError">> \in anomaly_signatures
       THEN inputs @@ [ended |-> "raised", flags |-> <<>>]
       ELSE inputs @@ [ended |-> "returned",
                       flags |-> IF FallbackNeeded(anomalies_found) THEN fallback
                                 ELSE marked]

NoEnrichment == [called |-> FALSE, objects |-> <<>>, hasAnomalies |-> FALSE,
                 anomalies |-> <<>>, ended |-> "none", flags |-> <<>>]

EnrichWithAnalysis ==
    /\ ~ enriched.called
    /\ \E objects \in SeqsUpTo(ObjectRows, MaxObjects), hasAnomalies \in BOOLEAN,
          anomalies \in SeqsUpTo(AnomalyRows, MaxAnomalies) :
          /\ (~ hasAnomalies => anomalies = <<>>)
          /\ enriched' = EnrichWithAnomalies(objects, hasAnomalies, anomalies)

(***************************************************************************)
(* NEOClient: the three cached queries                                     *)
(***************************************************************************)
\* the dict a successful query builds and returns: no 'error' key
NeoData(payload) == [success |-> "absent", error |-> FALSE, data |-> payload]

\* variant: the except block saves the error dict it returns
CacheAfterError_Saved(cache, key, error, t) == NeoSaveToCache(cache, key, error, t)
\* except Exception as e: return {'error': str(e), ...}, with no _save_to_cache
CacheAfterError(cache, key, error, t) == cache

\* clock steps between queries: every file still fresh, every file expired
NeoDeltas == {1, HoursToSeconds(PHA_MAX_AGE_HOURS) + 1}

\* how the feed request and the save that follows it end: get_feed raises, or
\* returns a payload that _save_to_cache writes or fails to write
FeedResults ==
    {[feed |-> "raises", payload |-> "p1", saved |-> FALSE]}
        \cup [feed : {"ok"}, payload : Payloads, saved : BOOLEAN]

NoNeoCall == [method |-> "none", data_source |-> "none", returned |-> NoBody]

\* The body shared by get_current_week_neos_cached, get_neos_for_date_range
\* and get_potentially_hazardous_cached: <<call record, directory afterwards>>.
\* cacheable: the method's condition for saving (a failed save is only logged).
CachedQuery(method, cache, key, use_cache, fed, cacheable, t) ==
    LET read == IF use_cache THEN NeoGetFromCache(cache, key, NeoMaxAgeArg(key), t)
                ELSE <<None, cache>>
        answer(source, dict) == [method |-> method, data_source |-> source, returned |-> dict]
    IN IF read[1].hit THEN <<answer("cache", read[1].value), read[2]>>
       ELSE IF fed.feed = "raises"
       THEN <<answer("error", BareError), CacheAfterError(read[2], key, BareError, t)>>
       ELSE <<answer("api", NeoData(fed.payload)),
              IF cacheable /\ fed.saved
              THEN NeoSaveToCache(read[2], key, NeoData(fed.payload), t)
              ELSE read[2]>>

GetCurrentWeekNeosCached ==
    \E use_cache \in BOOLEAN, fed \in FeedResults :
        LET r == CachedQuery("get_current_week_neos_cached", neoCache, "current_week",
                             use_cache, fed, TRUE, now)
        IN neoCall' = r[1] /\ neoCache' = r[2] /\ UNCHANGED rangeCache

GetPotentiallyHazardousCached ==
    \E fed \in FeedResults :
        LET r == CachedQuery("get_potentially_hazardous_cached", neoCache,
                             "potentially_hazardous_current", TRUE, fed, TRUE, now)
        IN neoCall' = r[1] /\ neoCache' = r[2] /\ UNCHANGED rangeCache

\* get_neos_for_date_range over the seven days from `start`; the range that
\* starts today has the file rangeCache, the far-future range has no file
GetNeosForDateRangeCached ==
    \E start \in {Today, Today + RANGE_CACHE_DAYS_AHEAD + 1}, use_cache \in BOOLEAN,
       fed \in FeedResults :
        LET file == IF start = Today THEN rangeCache ELSE NoNeoFile
            r == CachedQuery("get_neos_for_date_range", [k \in {"range"} |-> file], "range",
                             use_cache, fed, CacheableStart(start, Today), now)
        IN /\ neoCall' = r[1]
           /\ rangeCache' = IF start = Today THEN r[2]["range"] ELSE rangeCache
           /\ (start # Today => ~ r[2]["range"].exists)
           /\ UNCHANGED neoCache

(***************************************************************************)
(* SimpleCache.get / set / clear running concurrently on one key           *)
(***************************************************************************)
\* A cached document reaches the file in ChunksPerValue write calls and is
\* read back in as many read calls; the documents of the two set calls have
\* the same length. A chunk is named after the set call that wrote it.
ChunksPerValue == 2
Writers == {"w1", "w2"}

\* Files are inodes 1..Cardinality(Writers); entry is the inode the cache
\* file name points to, 0 when the name does not exist.
NoRace ==
    [entry |-> 0, created |-> 0,
     files |-> [n \in 1..Cardinality(Writers) |-> <<>>],
     writers |-> [w \in Writers |-> [pc |-> "idle", inode |-> 0, offset |-> 0]],
     reader |-> [pc |-> "idle", inode |-> 0, got |-> <<>>, result |-> <<>>,
                 returned |-> FALSE, raised |-> FALSE, raced |-> FALSE],
     overlapped |-> FALSE]

\* write(2) at an offset: past the end it leaves a hole of zero bytes
WriteAt(content, pos, chunk) ==
    IF pos <= Len(content) THEN [content EXCEPT ![pos] = chunk]
    ELSE [i \in 1..pos |-> IF i <= Len(content) THEN content[i]
                           ELSE IF i = pos THEN chunk ELSE "hole"]

\* json.load succeeds on a whole document only
Parses(content) ==
    /\ Len(content) = ChunksPerValue
    /\ \A i \in DOMAIN content : content[i] # "hole"

\* variant: the exception leaves get
TryRead_Unguarded(reader) == [reader EXCEPT !.pc = "idle", !.returned = FALSE, !.raised = TRUE]
\* try: ... except Exception: return None
TryRead(reader) == [reader EXCEPT !.pc = "idle", !.returned = TRUE, !.result = <<>>]

\* a step of a set call on the inode the running get has open
RacesWithRead(inode) ==
    IF race.reader.pc = "reading" /\ race.reader.inode = inode
    THEN [race.reader EXCEPT !.raced = TRUE] ELSE race.reader

\* set: open(cache_file, 'w') creates or truncates the file
SetOpen(w) ==
    /\ race.writers[w].pc = "idle"
    /\ LET inode == IF race.entry = 0 THEN race.created + 1 ELSE race.entry
       IN race' = [race EXCEPT
              !.entry = inode,
              !.created = IF race.entry = 0 THEN @ + 1 ELSE @,
              !.files[inode] = <<>>,
              !.writers[w] = [pc |-> "writing", inode |-> inode, offset |-> 0],
              !.reader = RacesWithRead(inode),
              !.overlapped = @ \/ \E v \in Writers \ {w} :
                                     /\ race.writers[v].pc = "writing"
                                     /\ race.writers[v].inode = inode]

\* set: json.dump writes the next chunk; the last one ends the call
SetWrite(w) ==
    /\ race.writers[w].pc = "writing"
    /\ LET inode == race.writers[w].inode
           pos == race.writers[w].offset + 1
       IN race' = [race EXCEPT
              !.files[inode] = WriteAt(@, pos, w),
              !.writers[w].offset = pos,
              !.writers[w].pc = IF pos = ChunksPerValue THEN "done" ELSE "writing",
              !.reader = RacesWithRead(inode)]

\* get: if not cache_file.exists(): return None
GetExists ==
    /\ race.reader.pc = "idle"
    /\ race' = [race EXCEPT
           !.reader = [pc |-> IF race.entry = 0 THEN "idle" ELSE "checked",
                       inode |-> 0, got |-> <<>>, result |-> <<>>,
                       returned |-> race.entry = 0, raised |-> FALSE, raced |-> FALSE]]

\* get: open(cache_file, 'r'); the file may be gone since the exists() test
GetOpen ==
    /\ race.reader.pc = "checked"
    /\ race' = [race EXCEPT
           !.reader = IF race.entry = 0 THEN TryRead(@)
                      ELSE [@ EXCEPT !.pc = "reading", !.inode = race.entry]]

\* get: json.load reads the next chunk, or reaches the end of the file and
\* parses; an expired document is unlinked by name
GetRead ==
    /\ race.reader.pc = "reading"
    /\ LET content == race.files[race.reader.inode]
           pos == Len(race.reader.got) + 1
       IN IF pos <= Len(content)
          THEN race' = [race EXCEPT !.reader.got = Append(@, content[pos])]
          ELSE IF ~ Parses(race.reader.got)
          THEN race' = [race EXCEPT !.reader = TryRead(@)]
          ELSE \E expired \in BOOLEAN :
                  IF ~ expired
                  THEN race' = [race EXCEPT !.reader.pc = "idle",
                                            !.reader.returned = TRUE,
                                            !.reader.result = race.reader.got]
                  ELSE IF race.entry = 0
                  THEN race' = [race EXCEPT !.reader = TryRead(@)]
                  ELSE race' = [race EXCEPT !.entry = 0,
                                            !.reader.pc = "idle",
                                            !.reader.returned = TRUE,
                                            !.reader.result = <<>>]

\* clear: unlink every cache file
ClearDuringRequests ==
    /\ race.entry # 0
    /\ race' = [race EXCEPT !.entry = 0]

(***************************************************************************)
(* Specifications                                                          *)
(***************************************************************************)
vars == <<now, ticks, neoCache, hzCache, webCache, lastRead, webVars, httpVars, hzVars, batchVars, unifyVars, listing, detail, cleaned, km, validated, classified, rangeCall, extraction, clientRun, imageFetch, scraper, enriched, rangeCache, neoCall, race>>

\* the state after construction, apart from the raw tables still to be loaded
InitProgram ==
    /\ now = 0
    /\ ticks = 0
    /\ neoCache = [k \in NeoKeys |-> NoNeoFile]
    /\ hzCache = [k \in HzKeys |-> NoHzFile]
    /\ webCache = [k \in WebKeys |-> NoWebFile]
    /\ lastRead = NoRead
    /\ served = 0
    /\ resp = NoResponse
    /\ last200 = [r \in ReqIds |-> No200]
    /\ call = NoCall
    /\ httpPc = "idle"
    /\ httpLog = <<>>
    /\ httpResult = NoResult
    /\ slept = 0
    /\ feedResult = NoResult
    /\ spkidCache = {}
    /\ hzResult = NoHzResult
    /\ hzCalls = 0
    /\ batchPc = "start"
    /\ results = [src \in Sources |-> NoSourceResult]
    /\ summaryWritten = FALSE
    /\ exitCode = -1
    /\ unifyPc = "ready"
    /\ unified = <<>>
    /\ enrichments = <<>>
    /\ duplicatesRemoved = 0
    /\ listing = NoListing
    /\ detail = NoDetail
    /\ cleaned = NoCleaning
    /\ km = NoKMeans
    /\ validated = NoValidation
    /\ classified = NoClassification
    /\ rangeCall = NoRangeCall
    /\ extraction = NoExtraction
    /\ clientRun = NoClientRun
    /\ imageFetch = NoImageFetch
    /\ scraper = NoFetches
    /\ enriched = NoEnrichment
    /\ rangeCache = NoNeoFile
    /\ neoCall = NoNeoCall
    /\ race = NoRace

EmptyTables == [opendata_all_bodies |-> <<>>, sbdb_main_belt |-> <<>>,
                wikipedia_objects |-> <<>>, johnstons_data |-> <<>>]

RawTables == [opendata_all_bodies : SeqsUpTo(OpenDataRows, MaxRows),
              sbdb_main_belt : SeqsUpTo(SbdbRows, MaxSecondaryRows),
              wikipedia_objects : SeqsUpTo(WikipediaRows, MaxRows),
              johnstons_data : SeqsUpTo(JohnstonsRows, MaxSecondaryRows)]

Init == InitProgram /\ rawSources = EmptyTables

\* the filter run starts from any raw tables _load_all_raw_sources can read
InitUnify == InitProgram /\ rawSources \in RawTables

\* everything outside the three cache directories and the clock
notCache == <<webVars, httpVars, hzVars, batchVars, unifyVars, listing, detail, cleaned, km, validated, classified, rangeCall, extraction, clientRun, imageFetch, scraper, enriched, rangeCache, neoCall, race>>
\* everything outside the web application
notWeb == <<neoCache, hzCache, lastRead, httpVars, hzVars, batchVars, unifyVars, listing, detail, cleaned, km, validated, classified, rangeCall, extraction, clientRun, imageFetch, scraper, enriched, rangeCache, neoCall, race>>
\* everything outside the HTTP client
notHttp == <<clockVars, neoCache, hzCache, webCache, lastRead, webVars, hzVars, batchVars, unifyVars, listing, detail, cleaned, km, validated, classified, rangeCall, extraction, clientRun, imageFetch, scraper, enriched, rangeCache, neoCall, race>>
\* everything outside the Horizons service and the clock
notHorizons == <<neoCache, webCache, lastRead, webVars, httpVars, batchVars, unifyVars, listing, detail, cleaned, km, validated, classified, rangeCall, extraction, clientRun, imageFetch, scraper, enriched, rangeCache, neoCall, race>>
\* everything outside the batch-extraction script
notBatch == <<clockVars, cacheVars, webVars, httpVars, hzVars, unifyVars, listing, detail, cleaned, km, validated, classified, rangeCall, extraction, clientRun, imageFetch, scraper, enriched, rangeCache, neoCall, race>>
\* everything outside the data filter
notUnify == <<clockVars, cacheVars, webVars, httpVars, hzVars, batchVars, listing, detail, cleaned, km, validated, classified, rangeCall, extraction, clientRun, imageFetch, scraper, enriched, rangeCache, neoCall, race>>
\* everything outside the object listing
notObjects == <<now, ticks, neoCache, hzCache, webCache, lastRead, webVars, httpVars, hzVars, batchVars, unifyVars, detail, cleaned, km, validated, classified, rangeCall, extraction, clientRun, imageFetch, scraper, enriched, rangeCache, neoCall, race>>
\* everything but the object-detail request
notDetail == <<now, ticks, neoCache, hzCache, webCache, lastRead, webVars, httpVars, hzVars, batchVars, unifyVars, listing, cleaned, km, validated, classified, rangeCall, extraction, clientRun, imageFetch, scraper, enriched, rangeCache, neoCall, race>>
\* everything but the JSON cleaner
notJson == <<now, ticks, neoCache, hzCache, webCache, lastRead, webVars, httpVars, hzVars, batchVars, unifyVars, listing, detail, km, validated, classified, rangeCall, extraction, clientRun, imageFetch, scraper, enriched, rangeCache, neoCall, race>>
\* everything but the k-means run
notKMeans == <<now, ticks, neoCache, hzCache, webCache, lastRead, webVars, httpVars, hzVars, batchVars, unifyVars, listing, detail, cleaned, validated, classified, rangeCall, extraction, clientRun, imageFetch, scraper, enriched, rangeCache, neoCall, race>>
\* everything but the validator
notValidator == <<now, ticks, neoCache, hzCache, webCache, lastRead, webVars, httpVars, hzVars, batchVars, unifyVars, listing, detail, cleaned, km, classified, rangeCall, extraction, clientRun, imageFetch, scraper, enriched, rangeCache, neoCall, race>>
\* everything but the cluster classifier
notClassifier == <<now, ticks, neoCache, hzCache, webCache, lastRead, webVars, httpVars, hzVars, batchVars, unifyVars, listing, detail, cleaned, km, validated, rangeCall, extraction, clientRun, imageFetch, scraper, enriched, rangeCache, neoCall, race>>
\* everything but the date-range query
notRange == <<now, ticks, neoCache, hzCache, webCache, lastRead, webVars, httpVars, hzVars, batchVars, unifyVars, listing, detail, cleaned, km, validated, classified, extraction, clientRun, imageFetch, scraper, enriched, rangeCache, neoCall, race>>
\* everything but the data integrator
notIntegrator == <<now, ticks, neoCache, hzCache, webCache, lastRead, webVars, httpVars, hzVars, batchVars, unifyVars, listing, detail, cleaned, km, validated, classified, rangeCall, clientRun, imageFetch, scraper, enriched, rangeCache, neoCall, race>>
\* everything but the client-level batch downloads
notClients == <<now, ticks, neoCache, hzCache, webCache, lastRead, webVars, httpVars, hzVars, batchVars, unifyVars, listing, detail, cleaned, km, validated, classified, rangeCall, extraction, imageFetch, scraper, enriched, rangeCache, neoCall, race>>
\* everything but the image search
notImages == <<now, ticks, neoCache, hzCache, webCache, lastRead, webVars, httpVars, hzVars, batchVars, unifyVars, listing, detail, cleaned, km, validated, classified, rangeCall, extraction, clientRun, scraper, enriched, rangeCache, neoCall, race>>
\* everything but the scraper
notScraper == <<now, ticks, neoCache, hzCache, webCache, lastRead, webVars, httpVars, hzVars, batchVars, unifyVars, listing, detail, cleaned, km, validated, classified, rangeCall, extraction, clientRun, imageFetch, enriched, rangeCache, neoCall, race>>
\* everything but the analysis enrichment
notEnrich == <<now, ticks, neoCache, hzCache, webCache, lastRead, webVars, httpVars, hzVars, batchVars, unifyVars, listing, detail, cleaned, km, validated, classified, rangeCall, extraction, clientRun, imageFetch, scraper, rangeCache, neoCall, race>>
\* everything but the cached NEO queries, their cache files and the clock
notNeo == <<hzCache, webCache, lastRead, webVars, httpVars, hzVars, batchVars, unifyVars, listing, detail, cleaned, km, validated, classified, rangeCall, extraction, clientRun, imageFetch, scraper, enriched, race>>
\* everything but the concurrent response-cache calls
notRace == <<now, ticks, neoCache, hzCache, webCache, lastRead, webVars, httpVars, hzVars, batchVars, unifyVars, listing, detail, cleaned, km, validated, classified, rangeCall, extraction, clientRun, imageFetch, scraper, enriched, rangeCache, neoCall>>

NextCache ==
    \/ \E d \in Deltas : Advance(d) /\ lastRead' = NoRead
                         /\ UNCHANGED <<neoCache, hzCache, webCache, notCache>>
    \/ \E k \in NeoKeys : NeoSave(k, SuccessBody("p1")) /\ UNCHANGED <<clockVars, notCache>>
    \/ \E k \in NeoKeys : NeoGet(k) /\ UNCHANGED <<clockVars, notCache>>
    \/ HzSave(CacheScenarioHzKey, SuccessBody("p1")) /\ UNCHANGED <<clockVars, notCache>>
    \/ HzGet(CacheScenarioHzKey) /\ UNCHANGED <<clockVars, notCache>>
    \/ WebSet(CacheScenarioWebKey, SuccessBody("p1")) /\ UNCHANGED <<clockVars, notCache>>
    \/ WebGet(CacheScenarioWebKey) /\ UNCHANGED <<clockVars, notCache>>
    \/ WebClear /\ UNCHANGED <<clockVars, notCache>>

SpecCache == Init /\ [][NextCache]_vars

NextWeb ==
    \/ \E d \in WebDeltas : Advance(d) /\ UNCHANGED <<webCache, webVars, notWeb>>
    \/ ReqObjects /\ UNCHANGED <<clockVars, notWeb>>
    \/ ReqObjectDetail /\ UNCHANGED <<clockVars, notWeb>>
    \/ ReqStats /\ UNCHANGED <<clockVars, notWeb>>
    \/ ReqAnomalies /\ UNCHANGED <<clockVars, notWeb>>
    \/ ReqClustering /\ UNCHANGED <<clockVars, notWeb>>
    \/ ReqLocalImage /\ UNCHANGED <<clockVars, notWeb>>
    \/ ClearCache /\ UNCHANGED <<clockVars, notWeb>>

SpecWeb == Init /\ [][NextWeb]_vars

NextWebCache ==
    \/ \E d \in WebDeltas : Advance(d) /\ UNCHANGED <<webCache, webVars, notWeb>>
    \/ ReqObjectDetail /\ UNCHANGED <<clockVars, notWeb>>
    \/ ReqStats /\ UNCHANGED <<clockVars, notWeb>>

SpecWebCache == Init /\ [][NextWebCache]_vars

NextImage ==
    ReqLocalImage /\ UNCHANGED <<clockVars, notWeb>>

SpecImage == Init /\ [][NextImage]_vars

NextHttp ==
    \/ \E m \in {"GET", "POST"} : StartRequest(m) /\ UNCHANGED notHttp
    \/ \E s \in FeedDates, e \in FeedDates \cup {NoDate} : GetFeed(s, e) /\ UNCHANGED notHttp
    \/ \E o \in AttemptOutcomes, parses \in BOOLEAN : Attempt(o, parses) /\ UNCHANGED notHttp
    \/ Backoff /\ UNCHANGED notHttp

SpecHttp == Init /\ [][NextHttp]_vars

NextHorizons ==
    \/ \E d \in HzDeltas : Advance(d) /\ UNCHANGED <<hzCache, hzVars, notHorizons>>
    \/ \E i \in ObjectIds, n \in ObjectNames \cup {NoneName},
          lookup \in LookupOutcomes, data \in DataOutcomes, saves \in BOOLEAN :
            GetOrbitalData(i, n, lookup, data, "p1", saves)
            /\ UNCHANGED <<clockVars, notHorizons>>

SpecHorizons == Init /\ [][NextHorizons]_vars

NextBatch ==
    \/ \E raises \in BOOLEAN : EnsureDataDirectories(raises) /\ UNCHANGED notBatch
    \/ \E r \in SourceResults("opendata") : OpenDataStep(r) /\ UNCHANGED notBatch
    \/ \E r \in SourceResults("sbdb") : SbdbStep(r) /\ UNCHANGED notBatch
    \/ \E raises \in BOOLEAN : Summarise(raises) /\ UNCHANGED notBatch

SpecBatch == Init /\ [][NextBatch]_vars

NextUnify == UnifyAndDeduplicate /\ UNCHANGED notUnify

SpecUnify == InitUnify /\ [][NextUnify]_vars

NextObjects == ReqObjectsListing /\ UNCHANGED notObjects

SpecObjects == Init /\ [][NextObjects]_vars

NextDetail == ObjectDetailRequest /\ UNCHANGED notDetail

SpecDetail == Init /\ [][NextDetail]_vars

NextJson ==
    \/ CleanNested /\ UNCHANGED notJson
    \/ CleanTable /\ UNCHANGED notJson

SpecJson == Init /\ [][NextJson]_vars

NextKMeans ==
    \/ KMeansStart /\ UNCHANGED notKMeans
    \/ KMeansIterate /\ UNCHANGED notKMeans

\* the loop body runs to its end once entered
SpecKMeans ==
    Init /\ [][NextKMeans]_vars /\ WF_vars(KMeansIterate /\ UNCHANGED notKMeans)

NextValidator ==
    \/ Validate /\ UNCHANGED notValidator
    \/ ValidateAsteroids /\ UNCHANGED notValidator

SpecValidator == Init /\ [][NextValidator]_vars

NextClassifier == Classify /\ UNCHANGED notClassifier

SpecClassifier == Init /\ [][NextClassifier]_vars

NextRange == RangeQuery /\ UNCHANGED notRange

SpecRange == Init /\ [][NextRange]_vars

NextIntegrator == ExtractAll /\ UNCHANGED notIntegrator

SpecIntegrator == Init /\ [][NextIntegrator]_vars

NextClients ==
    \/ SbdbDownload /\ UNCHANGED notClients
    \/ OpendataDownload /\ UNCHANGED notClients

SpecClients == Init /\ [][NextClients]_vars

NextImages ==
    \/ FetchFromNasaApi /\ UNCHANGED notImages
    \/ SearchRequest /\ UNCHANGED notImages

SpecImages == Init /\ [][NextImages]_vars

NextScraper == FetchPage /\ UNCHANGED notScraper

SpecScraper == Init /\ [][NextScraper]_vars

NextEnrich == EnrichWithAnalysis /\ UNCHANGED notEnrich

SpecEnrich == Init /\ [][NextEnrich]_vars

NextNeo ==
    \/ \E d \in NeoDeltas : Advance(d) /\ UNCHANGED <<neoCache, rangeCache, neoCall, notNeo>>
    \/ GetCurrentWeekNeosCached /\ UNCHANGED <<clockVars, notNeo>>
    \/ GetPotentiallyHazardousCached /\ UNCHANGED <<clockVars, notNeo>>
    \/ GetNeosForDateRangeCached /\ UNCHANGED <<clockVars, notNeo>>

SpecNeo == Init /\ [][NextNeo]_vars

NextRace ==
    \/ \E w \in Writers : SetOpen(w) /\ UNCHANGED notRace
    \/ \E w \in Writers : SetWrite(w) /\ UNCHANGED notRace
    \/ GetExists /\ UNCHANGED notRace
    \/ GetOpen /\ UNCHANGED notRace
    \/ GetRead /\ UNCHANGED notRace
    \/ ClearDuringRequests /\ UNCHANGED notRace

SpecRace == Init /\ [][NextRace]_vars

(***************************************************************************)
(* Properties                                                              *)
(***************************************************************************)

\* C1: whenever an internal step of a route handler raises, the response body
\* is the standard error envelope {success: false, error: <message>}.
C1_RaisedGivesErrorEnvelope ==
    resp.raised => resp.body = ErrorEnvelope

ReadExpiredBy(n) == lastRead.at = lastRead.written + lastRead.max_age + n

CachedRoutes == Endpoints

\* C3: a HIT is served without calling the handler and replays the body of a
\* status-200 response the handler produced for the same route, route
\* arguments and query items no longer than the timeout ago; on a miss the
\* handler is called and its response is stored exactly when it is a
\* status-200 JSON response, so every cache file holds such a body.
C3_HitReplaysEarlier200 ==
    /\ resp.cacheStatus = "HIT" =>
          /\ ~ resp.invoked
          /\ resp.status = 200
          /\ last200[resp.req].has
          /\ resp.body = last200[resp.req].body
          /\ last200[resp.req].at <= resp.at
          /\ resp.at <= last200[resp.req].at + DEFAULT_TIMEOUT
    /\ (resp.route \in CachedRoutes /\ resp.cacheStatus # "HIT") =>
          /\ resp.invoked
          /\ (resp.cacheStatus = "MISS") <=> (resp.status = 200)
    /\ \A k \in WebKeys : webCache[k].exists =>
          \E r \in ReqIds :
              /\ last200[r].has
              /\ last200[r].body = webCache[k].value
              /\ last200[r].at = webCache[k].created_at
              /\ webCache[k].value.success = "true"

C3_Witness ==
    /\ resp.cacheStatus = "HIT"
    /\ resp.route = "api.get_object_detail"
    /\ resp.at = last200[resp.req].at + DEFAULT_TIMEOUT

HasDotDot(path) == \E i \in 1..(Len(path) - 1) : path[i] = "." /\ path[i + 1] = "."

\* C8: a local-image request whose path contains '..' or begins with '/' is
\* answered with a 400-class status and never reaches the filesystem.
C8_TraversalRejected ==
    (/\ resp.route = "api_images.serve_local_image"
     /\ (HasDotDot(resp.path) \/ resp.path[1] = "/")) =>
        /\ resp.status \in 400..499
        /\ ~ resp.fsTouched

C8_Witness ==
    /\ resp.route = "api_images.serve_local_image"
    /\ resp.path = <<"a", ".", ".">>
    /\ resp.status = 400
    /\ ~ resp.fsTouched

\* C4: a get_feed call whose end_date is more than 7 days after its
\* start_date fails with the invalid-input error and issues no HTTP request.
C4_LongSpanRejectedBeforeHttp ==
    (/\ call.kind = "feed"
     /\ ValidDate(call.start) /\ call.end # NoDate /\ ValidDate(call.end)
     /\ Ordinal(call.end) - Ordinal(call.start) > 7) =>
        /\ httpPc = "done"
        /\ feedResult = Raised("ValueError", "none")
        /\ httpLog = <<>>

C4_Witness ==
    /\ call.kind = "feed"
    /\ call.start = <<1, 31>>
    /\ call.end = <<2, 8>>
    /\ feedResult.exc = "ValueError"

AllNetworkFailures == \A i \in 1..Len(httpLog) : httpLog[i] \in NetworkFailures

C6_HttpErrorNotRetried ==
    (httpPc = "done" /\ httpLog # <<>> /\ httpLog[1] = "HTTPError") =>
        /\ Len(httpLog) = 1
        /\ httpResult = Raised("HTTPError", "HTTPError")

HzFailures == {"non200", "no_count", "no_result", "timeout"}

\* C7: get_orbital_data never raises, and whenever the SPK-ID lookup or the
\* object-data call fails (timeout, nothing found, non-200 status) while no
\* valid cache entry exists, it returns the fallback payload whose source is
\* "local_data", never an error or an absent value.
C7_FailureGivesLocalData ==
    (/\ hzResult.kind # "none"
     /\ ~ hzResult.fromCache
     /\ (hzResult.lookup \in HzFailures \/ hzResult.data \in HzFailures)) =>
        /\ hzResult.kind = "dict"
        /\ hzResult.source = "local_data"

\* C9: the batch-extraction script exits with status 1 when at least one
\* source's step failed and with status 0 otherwise, so a run in which every
\* source was downloaded or skipped on a fresh cache exits with status 0.
C9_ExitCodeReflectsFailures ==
    batchPc = "exited" =>
        exitCode = (IF \E src \in Sources : results[src].status = "error" THEN 1 ELSE 0)

\* names a tier contributes to the run
TierNames(objs) == {objs[i].name : i \in 1..Len(objs)} \ {NaNName}
OpenDataNames ==
    TierNames([i \in 1..Len(rawSources.opendata_all_bodies) |->
                 CreateUnifiedObjectFromOpendata(rawSources.opendata_all_bodies[i])])
SbdbTierNames ==
    TierNames([i \in 1..Len(rawSources.sbdb_main_belt) |->
                 CreateUnifiedObjectFromSbdb(rawSources.sbdb_main_belt[i], "sbdb_main_belt")])
ScrapingNames ==
    TierNames([i \in 1..Len(rawSources.wikipedia_objects) |->
                 CreateUnifiedObjectFromScraping(rawSources.wikipedia_objects[i],
                                                 "wikipedia_objects")])
    \cup TierNames([i \in 1..Len(rawSources.johnstons_data) |->
                 CreateUnifiedObjectFromScraping(rawSources.johnstons_data[i],
                                                 "johnstons_data")])
SameNameInTwoTiers ==
    \/ OpenDataNames \cap SbdbTierNames # {}
    \/ OpenDataNames \cap ScrapingNames # {}
    \/ SbdbTierNames \cap ScrapingNames # {}

\* C10: after _unify_and_deduplicate has run on an input in which an object
\* with the same name appears in more than one source tier (OpenData, SBDB,
\* scraping), the duplicates_removed counter is greater than zero.
C10_CrossTierDuplicatesCounted ==
    (unifyPc = "done" /\ SameNameInTwoTiers) => duplicatesRemoved > 0

\* C11: for a filtered set of N rows, page p >= 1 and page_size s with
\* 1 <= s <= 200, GET /objects returns exactly the rows at positions
\* (p-1)*s+1 .. min(p*s, N), in order, and reports total_pages = ceil(N/s).
C11_PageIsTheRequestedWindow ==
    (/\ listing.pageArg.kind = "int" /\ listing.pageArg.value >= 1
     /\ listing.sizeArg.kind = "int"
     /\ listing.sizeArg.value >= 1 /\ listing.sizeArg.value <= 200) =>
        LET p == listing.pageArg.value
            s == listing.sizeArg.value
            N == listing.n
            lastRow == IF p * s < N THEN p * s ELSE N
            firstRow == (p - 1) * s + 1
        IN /\ listing.status = 200
           /\ listing.count = (IF lastRow >= firstRow THEN lastRow - firstRow + 1 ELSE 0)
           /\ listing.count > 0 => listing.first = firstRow
           /\ listing.total_pages = (N \div s) + (IF N % s = 0 THEN 0 ELSE 1)

C11_Witness ==
    /\ listing.n = 25
    /\ listing.pageArg = QueryArg("int", 2)
    /\ listing.sizeArg = QueryArg("int", 10)
    /\ listing.first = 11
    /\ listing.count = 10
    /\ listing.total_pages = 3

\* C12: whatever page and page_size are sent, a successful GET /objects
\* response holds at most 200 rows.
C12_AtMost200Rows ==
    listing.status = 200 => listing.count <= 200

\* C13: an existing object with diameter_km = d and no mean_radius_km value
\* (the column is not in the catalogue, or the object's cell is empty) is
\* answered with status 200 and mean_radius_km = d / 2.
C13_RadiusFallsBackToHalfDiameter ==
    (/\ detail.status # 0
     /\ detail.found
     /\ detail.diameter.kind = "num"
     /\ detail.radius.kind \in {"missing", "nan"}) =>
        /\ detail.status = 200
        /\ detail.mean_radius_km = Cell("num", detail.diameter.value \div 2)

\* C19: for an existing object whose record conversion succeeded, an
\* exception in the Horizons call or in the image call leaves the response a
\* success, with the failed field None, and both enrichments attempted when
\* requested.
C19_EnrichmentFailureDegrades ==
    (/\ detail.status \in {200, 500}
     /\ ~ (detail.radius.kind = "missing" /\ detail.diameter.kind = "nan")
     /\ ("raises" \in {detail.img}
            \/ (detail.hz = "raises" /\ detail.flag \in {"missing", "true"}))) =>
        /\ detail.status = 200
        /\ detail.imgAttempted
        /\ detail.flag \in {"missing", "true"} => detail.hzAttempted
        /\ (detail.hz = "raises" /\ detail.hzAttempted) => detail.orbital_data = "None"
        /\ detail.img = "raises" => detail.image = "None"
        /\ (detail.hz # "raises" /\ detail.hzAttempted) => detail.orbital_data = detail.hz
        /\ detail.img # "raises" => detail.image = detail.img

C19_Witness ==
    /\ detail.status = 200
    /\ detail.hz = "raises"
    /\ detail.hzAttempted
    /\ detail.orbital_data = "None"
    /\ detail.imgAttempted
    /\ detail.image = "image"


RECURSIVE JsonSafe(_)
\* a value made of dicts, lists and plain Python scalars, none of them nan
\* or +-inf
JsonSafe(obj) ==
    IF obj.node = "scalar"
    THEN obj.type \in {"int", "float", "str", "NoneType"} /\ obj.value = "finite"
    ELSE /\ obj.node \in {"dict", "list"}
         /\ \A i \in DOMAIN obj.items : JsonSafe(obj.items[i])

\* C14: whatever table or nested structure of dicts, lists and scalars the
\* cleaner is given, its output holds no nan, no +-inf and no numpy-typed
\* scalar.
C14_CleanedOutputIsJsonSafe ==
    cleaned.called # "none" => JsonSafe(cleaned.output)

\* the table path alone: nan, +-inf and numpy numbers of a table come out as
\* None and plain numbers
C14_TablePathIsJsonSafe ==
    cleaned.called = "dataframe_to_json_safe" => JsonSafe(cleaned.output)


\* C15: for every input with at least k rows the loop of _simple_kmeans runs
\* at most max_iters = 100 times and then returns, also when a cluster has
\* become empty, and every returned label is in 0..k-1.
C15_KMeansTerminatesWithLabelsInRange ==
    /\ [](km.iters <= MAX_ITERS)
    /\ [](km.pc = "done" =>
            /\ Len(km.clusters) = Len(km.data)
            /\ \A r \in DOMAIN km.clusters : km.clusters[r] \in 0..(km.k - 1))
    /\ (km.pc = "loop" ~> km.pc = "done")

C15_Witness ==
    /\ km.pc = "done"
    /\ km.emptied
    /\ km.iters = MAX_ITERS
    /\ km.k = 2


\* C16: in every row that validate_dataframe returns, a value of a numeric
\* column with a configured range is null exactly when the input value was
\* null already or lies strictly below the minimum or strictly above the
\* maximum; a value equal to a bound is kept as it was.
C16_NulledExactlyOutsideClosedRange ==
    \A i \in DOMAIN validated.df_clean :
        LET out == validated.df_clean[i]
            in == validated.df[out.src]
            outside(v, lo, hi) == Lt(v, lo) \/ Lt(hi, v)
        IN /\ validated.objectColumn # "eccentricity" =>
                out.eccentricity =
                    IF in.eccentricity.null \/ outside(in.eccentricity, Num(0, 0), Num(9990, -1))
                    THEN Null ELSE in.eccentricity
           /\ validated.objectColumn # "mass_kg" =>
                out.mass_kg =
                    IF outside(in.mass_kg, Num(1000, 16), Num(2000, 30))
                    THEN Null ELSE in.mass_kg

C16_Witness ==
    /\ validated.called
    /\ validated.objectColumn = "none"
    /\ Len(validated.df_clean) = 2
    /\ validated.df[1].eccentricity = Num(9990, -1)
    /\ validated.df_clean[1].eccentricity = Num(9990, -1)
    /\ validated.df[1].mass_kg = Num(1000, 15)
    /\ validated.df_clean[1].mass_kg = Null
    /\ validated.df[2].eccentricity = Num(1000, 0)
    /\ validated.df_clean[2].eccentricity = Null
    /\ validated.df[2].mass_kg = Num(1000, 16)
    /\ validated.df_clean[2].mass_kg = Num(1000, 16)


\* the label of the first rule that holds for the means a (tenths of AU),
\* e (tenths) and i (degrees, or -1 when it is nan)
FirstRule(a, e, i) ==
    IF 20 <= a /\ a <= 35 /\ e < 3 THEN "Asteroides del Cinturon Principal"
    ELSE IF 48 <= a /\ a <= 55 THEN "Asteroides Troyanos de Jupiter"
    ELSE IF a < 13 \/ (a < 17 /\ e > 6) THEN "Objetos Cercanos a la Tierra (NEO)"
    ELSE IF e > 7 /\ a > 30 THEN "Objetos Tipo Cometa (Alta Excentricidad)"
    ELSE IF 90 <= a /\ a <= 300 THEN "Centauros"
    ELSE IF i > 30 THEN "Objetos de Alta Inclinacion"
    ELSE "Poblacion Mixta"

\* a mean as the rules read it: a missing key counts as 0; a nan mean
\* satisfies no comparison, and -1 stands for a nan i (not above 30)
RuleValue(stat) == IF stat.kind = "nan" THEN -1 ELSE stat.value

\* C17: a cluster whose mean a is nan is labelled insufficient data whatever
\* its other fields; every other cluster gets the label of the first rule
\* that holds, in the order Main Belt, Jupiter Trojans, NEO, comet-type,
\* Centaurs, high inclination, mixed population.
\* (A nan e satisfies none of e < 0.3, e > 0.6, e > 0.7; 3 stands for it.)
C17_FirstRuleUnlessAAbsent ==
    classified.label # "none" =>
        classified.label =
            IF classified.a.kind = "nan" THEN "Datos insuficientes"
            ELSE IF classified.e.kind = "nan"
            THEN FirstRule(classified.a.value, 3, RuleValue(classified.i))
            ELSE FirstRule(classified.a.value, classified.e.value, RuleValue(classified.i))

\* C17 (amended): a cluster whose mean a or mean e is nan is labelled
\* insufficient data whatever its other fields; every other cluster gets the
\* label of the first rule that holds, in the order Main Belt, Jupiter
\* Trojans, NEO, comet-type, Centaurs, high inclination, mixed population.
C17_FirstRuleUnlessAOrEAbsent ==
    classified.label # "none" =>
        classified.label =
            IF classified.a.kind = "nan" \/ classified.e.kind = "nan"
            THEN "Datos insuficientes"
            ELSE FirstRule(classified.a.value, classified.e.value, RuleValue(classified.i))

C17_Witness ==
    /\ classified.a = Stat("num", 50)
    /\ classified.e = Stat("num", 2)
    /\ classified.label = "Asteroides Troyanos de Jupiter"


C20_EverySourceAttempted ==
    (extraction.returned /\ extraction.saveFails = "none") =>
        /\ extraction.attempted = ExtractionSources
        /\ extraction.datasets =
              {s \in ExtractionSources : extraction.outcome[s] = "ok"}


\* C26: when the Centaur query of SBDBClient.batch_download_all raises and
\* nothing else does, the call still completes: the CSV of every one of the
\* six earlier categories that had rows is written, the metadata JSON is
\* written, and the call returns normally.
C26_CentaurFailureSwallowed ==
    (/\ clientRun.run.source = "sbdb"
     /\ clientRun.makedirs = "ok"
     /\ \A i \in DOMAIN clientRun.outcome : clientRun.outcome[i] # "raises"
     /\ clientRun.centaurs = "raises"
     /\ clientRun.metadataWrite = "ok") =>
        /\ clientRun.run.ended = "completed"
        /\ clientRun.run.csv =
              {SbdbCategories[i] : i \in {j \in DOMAIN clientRun.outcome :
                                              clientRun.outcome[j] = "rows"}}
        /\ clientRun.run.metadata

C26_Witness ==
    /\ clientRun.run.source = "sbdb"
    /\ clientRun.centaurs = "raises"
    /\ clientRun.run.ended = "completed"
    /\ Cardinality(clientRun.run.csv) = 6
    /\ clientRun.run.metadata


\* C21: in the results the final summary is printed from, a source is listed
\* as succeeded only if its client-level batch download completed, as skipped
\* only if the download was not run on a fresh cache, and as failed whenever
\* the download ran into an error, whether it raised or aborted.
C21_SummaryReflectsDownloads ==
    \A src \in Sources :
        /\ results[src].status = "success" => results[src].download = "completed"
        /\ results[src].status = "cached" => results[src].download = "skipped"
        /\ results[src].download \in {"aborted", "raised"} => results[src].status = "error"


\* C22: one _fetch_from_nasa_api call sends at most 3 search requests, the
\* primary name plus at most 2 aliases; a request that timed out is the last
\* one of the call, and the call then returns the placeholder.
C22_AtMostThreeRequestsAndStopOnTimeout ==
    /\ Len(imageFetch.requests) <= 3
    /\ Len(imageFetch.requests) <= 1 + imageFetch.aliases
    /\ \A j \in DOMAIN imageFetch.requests :
          imageFetch.requests[j] = "timeout" =>
              /\ j = Len(imageFetch.requests)
              /\ imageFetch.pc = "done"
              /\ imageFetch.result = "placeholder"

C22_Witness ==
    /\ imageFetch.aliases = 3
    /\ imageFetch.requests = <<"error", "timeout">>
    /\ imageFetch.pc = "done"
    /\ imageFetch.result = "placeholder"


\* C23: for two consecutive fetch_page calls on one scraper, the GET of the
\* later call is issued at least `delay` seconds after the GET of the earlier
\* call, whether the earlier call returned a page or raised.
C23_DelayBetweenConsecutiveFetches ==
    scraper.calls >= 2 => scraper.issued - scraper.prevIssued >= SCRAPER_DELAY

\* the same after an earlier call that returned a page
C23_DelayAfterSuccessfulFetch ==
    (scraper.calls >= 2 /\ scraper.prevOutcome = "page") =>
        scraper.issued - scraper.prevIssued >= SCRAPER_DELAY

\* C24: in a returned _enrich_with_analysis table an object carries the type
\* "Extreme_Orbital_Parameters" only if no object of the run matched a DBSCAN
\* anomaly signature, and in a run where some object matched, the objects
\* flagged anomalous are exactly the matched ones.
C24_ExtremeFlagOnlyWithoutMatches ==
    LET signatures == {AnomalySignature(enriched.anomalies[j]) :
                          j \in DOMAIN enriched.anomalies}
        Matched(idx) == ObjectSignature(enriched.objects[idx]) \in signatures
        someMatch == \E idx \in DOMAIN enriched.objects : Matched(idx)
    IN (enriched.called /\ enriched.ended = "returned" /\ enriched.hasAnomalies) =>
          /\ DOMAIN enriched.flags = DOMAIN enriched.objects
          /\ (\E idx \in DOMAIN enriched.flags :
                 enriched.flags[idx].anomaly_type = "Extreme_Orbital_Parameters")
                => ~ someMatch
          /\ someMatch => \A idx \in DOMAIN enriched.flags :
                             enriched.flags[idx].is_anomaly <=> Matched(idx)

C24_Witness ==
    /\ enriched.ended = "returned"
    /\ enriched.anomalies = <<[a |-> Orb(10000), e |-> Orb(5000), i |-> Orb(1000)]>>
    /\ enriched.objects = <<[a |-> Orb(10004), e |-> Orb(5000), i |-> Orb(1000), q |-> OrbNone],
                            [a |-> Orb(10000), e |-> Orb(9000), i |-> Orb(16000), q |-> OrbNone]>>
    /\ enriched.flags = <<Flag(TRUE, "DBSCAN_Outlier"), Flag(FALSE, "None")>>

\* C25: when a scraping record's hash equals that of an object already in the
\* unified list, the record is not appended, and the only object the
\* enrichment changes is the object with that hash.
C25_EnrichmentHitsCollidingObject ==
    \A n \in DOMAIN enrichments :
        LET entry == enrichments[n]
        IN /\ Len(entry.after) = Len(entry.before)
           /\ \A k \in DOMAIN entry.before :
                 entry.after[k] # entry.before[k] =>
                     CalculateObjectHash(entry.before[k]) = CalculateObjectHash(entry.record)

\* C30: a record is appended exactly when no earlier record of the run has
\* both its name and its object_type. Stated on the result of a run, for the
\* OpenData and SBDB tiers (whose every row is processed when the run returns):
\* no two unified objects share name and object_type, and every record is
\* present in the unified list under its own name and object_type.
C30_AppendedUnlessSameNameAndType ==
    LET opendata == [i \in DOMAIN rawSources.opendata_all_bodies |->
                        CreateUnifiedObjectFromOpendata(rawSources.opendata_all_bodies[i])]
        sbdb == [i \in DOMAIN rawSources.sbdb_main_belt |->
                    CreateUnifiedObjectFromSbdb(rawSources.sbdb_main_belt[i], "sbdb_main_belt")]
        records == {opendata[i] : i \in DOMAIN opendata} \cup {sbdb[i] : i \in DOMAIN sbdb}
        Same(x, y) == x.name = y.name /\ x.object_type = y.object_type
    IN unifyPc = "done" =>
          /\ \A j, k \in DOMAIN unified : Same(unified[j], unified[k]) => j = k
          /\ \A rec \in records : \E k \in DOMAIN unified : Same(unified[k], rec)

\* the number of null fields of input row i once the out-of-range values of
\* its numeric columns are nulled, and whether an earlier row has its name
NullFieldsOfRow(i) ==
    LET row == validated.df[i]
        nulled(col) == row[col].null
                       \/ (validated.objectColumn # col /\ OutOfRange(row[col], col))
    IN (IF nulled("eccentricity") THEN 1 ELSE 0) + (IF nulled("mass_kg") THEN 1 ELSE 0)
       + (IF row.class = "nan" THEN 1 ELSE 0)
RowRemoved(i) == \A k \in DOMAIN validated.df_clean : validated.df_clean[k].src # i
ColumnsOfTable == IF validated.df[1].class = "no column" THEN 3 ELSE 4

C28_NoErrorResultInCache ==
    /\ \A k \in NeoKeys : neoCache[k].exists =>
          (~ neoCache[k].data.error /\ neoCache[k].data.data \in Payloads)
    /\ rangeCache.exists => (~ rangeCache.data.error /\ rangeCache.data.data \in Payloads)
    /\ neoCall.data_source = "cache" =>
          (~ neoCall.returned.error /\ neoCall.returned.data \in Payloads)
    /\ neoCall.data_source = "error" => neoCall.returned = BareError

\* a call answered from the file that an earlier successful call wrote
C28_Witness ==
    /\ neoCall.method = "get_current_week_neos_cached"
    /\ neoCall.data_source = "cache"
    /\ neoCall.returned = NeoData("p2")
    /\ neoCache["current_week"].cached_at > 0
    /\ ~ neoCache["potentially_hazardous_current"].exists

\* C29: with gets, sets, expiry deletions and clear() interleaved on one key,
\* get never raises, and what it returns is no value or the complete value
\* one set call stored, never a partial value or a mixture of two writes.
C29_GetReturnsNothingOrOneCompleteValue ==
    /\ ~ race.reader.raised
    /\ race.reader.result # <<>> =>
          \E w \in Writers : race.reader.result = [i \in 1..ChunksPerValue |-> w]

\* C29 as the code has it: get never raises and never returns a partially
\* written value; the document it returns is the complete value of one set
\* call when no set call overlapped another one on the file or wrote to it
\* during the read.
C29_CompleteValueWithoutOverlap ==
    /\ ~ race.reader.raised
    /\ race.reader.result # <<>> =>
          /\ Len(race.reader.result) = ChunksPerValue
          /\ \A i \in DOMAIN race.reader.result : race.reader.result[i] \in Writers
          /\ (~ race.overlapped /\ ~ race.reader.raced) =>
                \E w \in Writers : race.reader.result = [i \in 1..ChunksPerValue |-> w]

\* a get that returned the first document while the second set call is
\* still writing to the file
C29_Witness ==
    /\ race.reader.returned
    /\ race.reader.result = [i \in 1..ChunksPerValue |-> "w1"]
    /\ ~ race.overlapped /\ ~ race.reader.raced
    /\ race.writers["w1"].pc = "done"
    /\ race.writers["w2"].pc = "writing"

====
